---------------------------- MODULE Spec2Model ----------------------------
(***************************************************************************)
(* A model of the genjax probabilistic-programming runtime:                *)
(*   - the generative function interface (simulate / assess / update /     *)
(*     staged_implementation) of Distribution and Fn, executed step by     *)
(*     step over the process-wide handler stack (core.py);                 *)
(*   - the seed interpreter, the keyless sampling path with its global     *)
(*     key counter, and the lowering rule of the assume primitive          *)
(*     (core.py);                                                          *)
(*   - the enumeration interpreter with its score-collecting wrapper       *)
(*     (enum.py), the lowering of reflective measures to the enumeration   *)
(*     language (core.py) and the tagged-broadcast interpreter (ve.py).    *)
(***************************************************************************)
EXTENDS Integers, Sequences, FiniteSets, TLC

VARIABLES
    \* ---- generative function interface ----
    prog,            \* the host functions: [body, inner], sequences of statements
    arg0,            \* the argument every call of the session passes
    handler_stack,   \* core.py handler_stack: the process-wide list of handlers
    frames,          \* the active Fn.simulate/assess/update/staged_implementation calls
    status,          \* "idle" | "running" | "returned" | "raised"
    call,            \* the top-level call in progress or just finished
    tr,              \* the trace returned by the last top-level simulate
    res,             \* what the last top-level call returned
    ncalls,          \* number of top-level calls made
    global_counter,  \* core.py global_counter.count
    \* ---- seed interpreter and lowering ----
    graph,                       \* the computation graph of the function f
    jaxpr_cache,                 \* cached_stage_dynamic: the staged graph of f, <<>> if none
    lowering_warning,            \* core.py module flag
    enforce_lowering_exception,  \* core.py module flag
    seed_log,                    \* the calls seed(f)(key, args) made, with their outcome
    last,                        \* the last call seed(f)(key, args) in full
    low,                         \* the last lowering of f without seed
    warned,                      \* warnings.warn has been called by a lowering rule
    \* ---- projection, enumeration and tagged broadcast ----
    constraint,      \* the constraint of the measure P.project(args, constraint)
    estatus,         \* "idle" | "running" | "done" | "raised"
    egraph,          \* the staged enumeration program: [eqns, x, ret]
    epc,             \* the equation the enumeration interpreter stands at
    lanes,           \* the batched executions of the continuation, in axis order
    enum_out,        \* what enum returned
    ve_out,          \* what ve returned
    gen_out,         \* what generate returned
    supported,       \* the distributions built with a support function
    \* ---- selections ----
    sel_cur,         \* the selection at hand (an S)
    sel_last,        \* the last match: its address and its boolean
    sel_depth,       \* residuals taken since the selection was built
    sel_ops,         \* constructors and combinators applied
    \* ---- modular vmap of an assume node ----
    vm_batch_shape,  \* the batch_shape of the assume node, outer axis first
    vm_arg,          \* the axes of the argument of the node, as the batch rule sees it
    vm_levels,       \* the modular_vmap levels applied, innermost first
    vm_out,          \* the axes of the array the sampler returned
    \* ---- discretize ----
    discretization,  \* the distributions built with a discretization
    dz_call,         \* the discretize call made: [target, sel]
    dz_out,          \* what the discretize call returned or raised
    \* ---- interpreter environment ----
    ev_env,             \* Environment.env: per variable count, the cell held
    ev_written,      \* the variables write was called on in this pass
    ev_last,         \* the last call on the environment and its outcome
    ev_ops,          \* calls made on the environment
    \* ---- score-collecting interpreter ----
    co_graph,        \* the staged graph of the function collect wraps
    co_status,       \* idle, running, done
    co_pc,           \* the equation the interpreter stands at
    co_env,          \* the cells written, variable 1 first
    co_score,        \* CollectingInterpreter.score
    co_out,          \* what the wrapped function returned
    \* ---- blanket ----
    bk_jaxpr,        \* the staged graph of the function the trace came from
    bk_tr,           \* the return values the trace holds, by equation
    bk_call,         \* the call Trace.blanket(sel) made
    bk_out,          \* the sites of the program blanket built
    \* ---- the loop of the enumeration interpreter ----
    el_eqns,         \* jaxpr.eqns of the staged function: the kind of every equation
    el_stack,        \* the calls of eval_jaxpr_enum_loop in progress, innermost last
    el_status,       \* start, running, done or raised
    el_depth,        \* the deepest nesting of continuations so far
    \* ---- the parameters of an assume node under modular_vmap ----
    nd_params,       \* name, keyful_sampler, batch_shape and support of the assume node of the graph
    nd_bound,        \* the parameters the node was bound with by the distribution
    nd_enum,         \* what enum did at the node
    \* ---- choice maps as objects (sp.py) ----
    mg_heap,         \* the dicts built so far, in order of construction
    mg_out,          \* what the last GFI call returned
    mg_calls,        \* GFI calls made on the heap so far
    \* ---- projection of a projected measure ----
    pj_hist,         \* the measures project returned, in order
    pj_log           \* the constraints project was given, in order

gfi_vars == <<prog, arg0, handler_stack, frames, status, call, tr, res, ncalls>>

seed_vars == <<graph, jaxpr_cache, lowering_warning, enforce_lowering_exception,
               seed_log, last, low, warned>>

enum_vars == <<constraint, estatus, egraph, epc, lanes, enum_out, ve_out,
               gen_out, supported>>

sel_vars == <<sel_cur, sel_last, sel_depth, sel_ops>>

vmap_vars == <<vm_batch_shape, vm_arg, vm_levels, vm_out>>

disc_vars == <<discretization, dz_call, dz_out>>

env_vars == <<ev_env, ev_written, ev_last, ev_ops>>

collect_vars == <<co_graph, co_status, co_pc, co_env, co_score, co_out>>

blanket_vars == <<bk_jaxpr, bk_tr, bk_call, bk_out>>

loop_vars == <<el_eqns, el_stack, el_status, el_depth>>

node_vars == <<nd_params, nd_bound, nd_enum>>

heap_vars == <<mg_heap, mg_out, mg_calls>>

proj_vars == <<pj_hist, pj_log>>

\* what the actions of each part leave alone
gfi_frame == <<seed_vars, enum_vars, sel_vars, vmap_vars, disc_vars,
               env_vars, collect_vars, blanket_vars, loop_vars,
               node_vars, heap_vars,
               proj_vars>>
seed_frame == <<gfi_vars, enum_vars, sel_vars, vmap_vars, disc_vars,
                env_vars, collect_vars, blanket_vars, loop_vars,
               node_vars, heap_vars,
               proj_vars>>
enum_frame == <<frames, status, call, tr, res, ncalls, seed_vars, sel_vars,
                gen_out, supported, vmap_vars, disc_vars, env_vars,
                collect_vars, blanket_vars, loop_vars,
               node_vars, heap_vars,
               proj_vars>>

sel_frame == <<gfi_vars, seed_vars, enum_vars, global_counter, vmap_vars,
               disc_vars, env_vars, collect_vars, blanket_vars, loop_vars,
               node_vars, heap_vars,
               proj_vars>>

vmap_frame == <<gfi_vars, seed_vars, enum_vars, sel_vars, global_counter,
                disc_vars, env_vars, collect_vars, blanket_vars, loop_vars,
               node_vars, heap_vars,
               proj_vars>>

disc_frame == <<gfi_vars, seed_vars, enum_vars, sel_vars, vmap_vars,
                global_counter, env_vars, collect_vars, blanket_vars, loop_vars,
               node_vars, heap_vars,
               proj_vars>>

env_frame == <<gfi_vars, seed_vars, enum_vars, sel_vars, vmap_vars,
               disc_vars, global_counter, collect_vars, blanket_vars, loop_vars,
               node_vars, heap_vars,
               proj_vars>>

collect_frame == <<gfi_vars, seed_vars, enum_vars, sel_vars, vmap_vars,
                   disc_vars, env_vars, blanket_vars, loop_vars,
               node_vars, heap_vars,
               proj_vars>>

blanket_frame == <<gfi_vars, seed_vars, enum_vars, sel_vars, vmap_vars,
                  disc_vars, env_vars, collect_vars, global_counter, loop_vars,
               node_vars, heap_vars,
               proj_vars>>

loop_frame == <<gfi_vars, seed_vars, enum_vars, sel_vars, vmap_vars,
               disc_vars, env_vars, collect_vars, blanket_vars,
               global_counter, node_vars, heap_vars,
               proj_vars>>

node_frame == <<gfi_vars, seed_vars, enum_vars, sel_vars, vmap_vars,
               disc_vars, env_vars, collect_vars, blanket_vars, loop_vars,
               global_counter, heap_vars, proj_vars>>

heap_frame == <<gfi_vars, seed_vars, enum_vars, sel_vars, vmap_vars,
               disc_vars, env_vars, collect_vars, blanket_vars, loop_vars,
               node_vars, global_counter,
               proj_vars>>

proj_frame == <<gfi_vars, seed_vars, enum_vars, sel_vars, vmap_vars,
               disc_vars, env_vars, collect_vars, blanket_vars, loop_vars,
               node_vars, heap_vars, global_counter>>

vars == <<prog, arg0, handler_stack, frames, status, call, tr, res, ncalls,
          global_counter, graph, jaxpr_cache, lowering_warning,
          enforce_lowering_exception, seed_log, last, low, warned,
          constraint, estatus, egraph, epc, lanes, enum_out, ve_out, gen_out,
          supported,
          sel_cur, sel_last, sel_depth, sel_ops,
          vm_batch_shape, vm_arg, vm_levels, vm_out,
          discretization, dz_call, dz_out,
          ev_env, ev_written, ev_last, ev_ops,
          co_graph, co_status, co_pc, co_env, co_score, co_out,
          bk_jaxpr, bk_tr, bk_call, bk_out,
          el_eqns, el_stack, el_status, el_depth,
          nd_params, nd_bound, nd_enum,
          mg_heap, mg_out, mg_calls,
          pj_hist, pj_log>>

-----------------------------------------------------------------------------
(* Bounds of the model. *)

MaxStmts == 2      \* statements in the body of the outer host function
MaxCalls == 2      \* top-level GFI calls in one session

-----------------------------------------------------------------------------
(* Floating point scores: integers (log-density units) extended with       *)
(* -inf, +inf and nan, encoded as records so that they add as floats do.   *)

Fin(n) == [k |-> "fin", n |-> n]
NegInf == [k |-> "-inf", n |-> 0]
PosInf == [k |-> "+inf", n |-> 0]
NaN    == [k |-> "nan", n |-> 0]

FAdd(x, y) ==
    IF x.k = "nan" \/ y.k = "nan" THEN NaN
    ELSE IF x.k = "fin" /\ y.k = "fin" THEN Fin(x.n + y.n)
    ELSE IF x.k = "fin" THEN y
    ELSE IF y.k = "fin" THEN x
    ELSE IF x.k = y.k THEN x
    ELSE NaN

FNeg(x) ==
    IF x.k = "fin" THEN Fin(0 - x.n)
    ELSE IF x.k = "-inf" THEN PosInf
    ELSE IF x.k = "+inf" THEN NegInf
    ELSE NaN

\* IEEE equality: nan is equal to nothing, itself included.
FEq(x, y) == x.k # "nan" /\ y.k # "nan" /\ x = y

-----------------------------------------------------------------------------
(* The distributions the programs use: their support, and their density    *)
(* kernels in quarters (ProbNum / 4 is the probability).                    *)

DistNames == {"flip", "coin"}

Values == 0 .. 1

\* flip(p): p = 0 is a fair coin, any other p puts all mass on 1.
\* coin(p): mass 1/4 on the value equal to p, 1/2 on the other.
ProbNum(d, x, a) ==
    IF d = "flip"
    THEN (IF a = 0 THEN 2 ELSE IF x = 1 THEN 4 ELSE 0)
    ELSE (IF x = a THEN 1 ELSE 2)

\* log2 of q/4 for the masses the kernels produce.
Log2Quarters(q) ==
    IF q = 0 THEN NegInf
    ELSE IF q = 1 THEN Fin(0 - 2)
    ELSE IF q = 2 THEN Fin(0 - 1)
    ELSE Fin(0)

\* tfp_distribution.logpdf: d.log_prob(v)
logpdf(d, x, a) == Log2Quarters(ProbNum(d, x, a))

\* The values a sampler can return: the ones of positive mass.
Sampleable(d, a) == {x \in Values : ProbNum(d, x, a) > 0}


-----------------------------------------------------------------------------
(* Choice structures.  A python dict keyed by address is a function on     *)
(* Addrs whose absent keys map to Absent; a raw choice value is a Leaf.    *)

Addrs == {"a", "b"}

Absent  == [t |-> "absent"]
Leaf(v) == [t |-> "val", v |-> v]
Dict(m) == [t |-> "map", m |-> m]
EmptyMap == [x \in Addrs |-> Absent]

\* core.py Trace: the dataclass fields _gen_fn, _args, _choices, _retval, _score
Trace(g, args, choices, retval, score) ==
    [t |-> "trace", gen_fn |-> g, args |-> args, choices |-> choices,
     retval |-> retval, score |-> score]

\* core.py get_choices: a Trace yields its choices, anything else itself
get_choices(x) == IF x.t = "trace" THEN x.choices ELSE x

\* Trace.get_score (scores are scalars here)
get_score(t) == t.score

\* an exception leaving a call
Exc(name) == [t |-> "exc", e |-> name]

-----------------------------------------------------------------------------
(* Host functions.  A body is a sequence of statements; the python         *)
(* function it stands for is                                                *)
(*     acc = x                                                              *)
(*     r = callee(acc) @ addr; acc = (acc + r) % 2      -- "trace"          *)
(*     raise Exception                                  -- "raise"          *)
(*     return acc                                                           *)

TraceStmt(addr, callee) == [k |-> "trace", addr |-> addr, callee |-> callee]
RaiseStmt == [k |-> "raise", addr |-> "-", callee |-> "-"]

Stmts == {TraceStmt("a", "flip"), TraceStmt("b", "coin"),
          TraceStmt("b", "inner"), RaiseStmt}

Bodies == UNION {[1 .. n -> Stmts] : n \in 1 .. MaxStmts}

InnerBodies == { <<TraceStmt("a", "coin")>> }

UsesInner(body) == \E i \in 1 .. Len(body) : body[i].callee = "inner"

Body(fn) == IF fn = "outer" THEN prog.body ELSE prog.inner

Combine(acc, r) == (acc + r) % 2

-----------------------------------------------------------------------------
(* Distribution: the primitive generative function.                        *)

\* Distribution.simulate, for the value x its sampler returned
DistSimulate(d, args, x) ==
    Trace(d, args, Leaf(x), x, FNeg(logpdf(d, x, args)))

\* Distribution.assess; the density kernel rejects anything but a value
DistAssess(d, args, x) ==
    IF x.t # "val" THEN Exc("TypeError")
    ELSE [t |-> "ok", tr |-> Absent, w |-> logpdf(d, x.v, args), r |-> x.v,
          discard |-> Absent]

\* Distribution.update with the old trace's score left out of the weight
DistUpdateNoOldScore(d, args_, t, x_) ==
    IF x_.t # "val" THEN Exc("TypeError")
    ELSE [t |-> "ok",
          tr |-> Trace(d, args_, x_, x_.v, FNeg(logpdf(d, x_.v, args_))),
          w |-> logpdf(d, x_.v, args_),
          r |-> x_.v,
          discard |-> Leaf(t.retval)]

\* Distribution.update
DistUpdate(d, args_, t, x_) ==
    IF x_.t # "val" THEN Exc("TypeError")
    ELSE [t |-> "ok",
          tr |-> Trace(d, args_, x_, x_.v, FNeg(logpdf(d, x_.v, args_))),
          w |-> FAdd(logpdf(d, x_.v, args_), get_score(t)),
          r |-> x_.v,
          discard |-> Leaf(t.retval)]

-----------------------------------------------------------------------------
(* The handlers of the effect stack.                                       *)

Handler(kind, choice_map, trace) ==
    [kind |-> kind, score |-> Fin(0), weight |-> Fin(0), trace_map |-> EmptyMap,
     discard |-> EmptyMap, choice_map |-> choice_map, trace |-> trace]

\* python: d[addr] on d; a non-dict is not subscriptable, a missing key raises
Subscript(d, addr) ==
    IF d.t # "map" THEN Exc("TypeError")
    ELSE IF d.m[addr] = Absent THEN Exc("KeyError")
    ELSE d.m[addr]

\* Assess.__call__ up to the callee's assess: the choice it hands down
AssessLookup(h, addr) ==
    LET x == Subscript(h.choice_map, addr)
    IN  IF x.t = "exc" THEN x ELSE get_choices(x)

\* Update.__call__ up to the callee's update: [subtrace, x] or an exception
UpdateLookup(h, addr) ==
    LET subtrace == Subscript(get_choices(h.trace), addr)
    IN  IF subtrace.t = "exc" THEN subtrace
        ELSE IF h.choice_map.t # "map" THEN Exc("TypeError")
        ELSE LET x == IF h.choice_map.m[addr] # Absent
                      THEN h.choice_map.m[addr]
                      ELSE get_choices(subtrace)
             IN  [t |-> "ok", subtrace |-> subtrace, x |-> get_choices(x)]

\* the handlers' __call__ with Simulate.__call__ storing the trace of the
\* callee and leaving its score out
AccumulateUnscored(h, addr, sub) ==
    IF h.kind = "Simulate"
    THEN [h EXCEPT !.trace_map = [h.trace_map EXCEPT ![addr] = sub.tr]]
    ELSE IF h.kind = "Assess"
    THEN [h EXCEPT !.weight = FAdd(h.weight, sub.w)]
    ELSE IF h.kind = "Update"
    THEN [h EXCEPT !.trace_map = [h.trace_map EXCEPT ![addr] = sub.tr],
                   !.discard = [h.discard EXCEPT ![addr] = sub.discard],
                   !.score = FAdd(h.score, get_score(sub.tr)),
                   !.weight = FAdd(h.weight, sub.w)]
    ELSE h

\* What a handler's __call__ does once the callee has returned `sub`:
\* Simulate.__call__, Assess.__call__, Update.__call__, Stage.__call__
Accumulate(h, addr, sub) ==
    IF h.kind = "Simulate"
    THEN [h EXCEPT !.score = FAdd(h.score, get_score(sub.tr)),
                   !.trace_map = [h.trace_map EXCEPT ![addr] = sub.tr]]
    ELSE IF h.kind = "Assess"
    THEN [h EXCEPT !.weight = FAdd(h.weight, sub.w)]
    ELSE IF h.kind = "Update"
    THEN [h EXCEPT !.trace_map = [h.trace_map EXCEPT ![addr] = sub.tr],
                   !.discard = [h.discard EXCEPT ![addr] = sub.discard],
                   !.score = FAdd(h.score, get_score(sub.tr)),
                   !.weight = FAdd(h.weight, sub.w)]
    ELSE h


-----------------------------------------------------------------------------
(* Fn: the composite generative function, run over the handler stack.      *)

KindOf(op) ==
    IF op = "simulate" THEN "Simulate"
    ELSE IF op = "assess" THEN "Assess"
    ELSE IF op = "update" THEN "Update"
    ELSE "Stage"

Frame(fn, op, args) == [fn |-> fn, op |-> op, pc |-> 1, acc |-> args, args |-> args]

Top(s) == s[Len(s)]
Pop(s) == SubSeq(s, 1, Len(s) - 1)
SetTop(s, v) == [s EXCEPT ![Len(s)] = v]

\* First line of Fn.simulate / assess / update / staged_implementation:
\* handler_stack.append(<handler>), then the host function starts.
FnEnter(fn, op, args, x, t) ==
    /\ handler_stack' = Append(handler_stack, Handler(KindOf(op), x, t))
    /\ frames' = Append(frames, Frame(fn, op, args))

\* What Fn.simulate / assess / update / staged_implementation return from the
\* popped handler h once the host function has returned f.acc.
FnResult(f, h) ==
    IF f.op = "simulate"
    THEN [t |-> "ok", tr |-> Trace(f.fn, f.args, Dict(h.trace_map), f.acc, h.score),
          w |-> Fin(0), r |-> f.acc, discard |-> Absent]
    ELSE IF f.op = "assess"
    THEN [t |-> "ok", tr |-> Absent, w |-> h.weight, r |-> f.acc, discard |-> Absent]
    ELSE IF f.op = "update"
    THEN [t |-> "ok", tr |-> Trace(f.fn, f.args, Dict(h.trace_map), f.acc, h.score),
          w |-> h.weight, r |-> f.acc, discard |-> Dict(h.discard)]
    ELSE [t |-> "ok", tr |-> Absent, w |-> Fin(0), r |-> f.acc, discard |-> Absent]

\* An exception propagates out of every active call.  No call of the stack
\* catches it or has a finally clause, so the frames are gone and the handler
\* stack is left as it is.
Propagate(e) ==
    /\ frames' = <<>>
    /\ status' = "raised"
    /\ res' = e
    /\ UNCHANGED <<handler_stack, tr>>

\* trace(addr, gen_fn, args) has returned `sub` to the frame on top: the handler
\* on top of the stack accumulates it and the host function goes on.
Resume(stack, fs, addr, sub) ==
    LET f == Top(fs)
    IN  /\ handler_stack' = SetTop(stack, Accumulate(Top(stack), addr, sub))
        /\ frames' = SetTop(fs, [f EXCEPT !.pc = f.pc + 1, !.acc = Combine(f.acc, sub.r)])
        /\ UNCHANGED <<status, res, tr>>

\* ---- top-level calls ----

CanCall == status # "running" /\ ncalls < MaxCalls

Begin(op, x) ==
    /\ status' = "running"
    /\ ncalls' = ncalls + 1
    /\ call' = [op |-> op, x |-> x, stack0 |-> handler_stack]
    /\ res' = Absent
    /\ UNCHANGED <<prog, arg0, tr, global_counter, gfi_frame>>

Args == 0 .. 1

LeafOpts == {Absent} \cup {Leaf(v) : v \in Values}

CalleesAt(body, addr) ==
    {body[i].callee : i \in {j \in 1 .. Len(body) : body[j].addr = addr}}

\* The choice maps a caller may pass for a host function: per address a value,
\* a nested map (where a nested program is traced) or nothing.
InnerChoices(body) ==
    {Dict(m) : m \in {n \in [Addrs -> LeafOpts] :
                        \A ad \in Addrs : CalleesAt(body, ad) = {} => n[ad] = Absent}}

OuterChoices(body, inner) ==
    {Dict(m) : m \in
        {n \in [Addrs -> LeafOpts \cup InnerChoices(inner)] :
            \A ad \in Addrs :
               /\ CalleesAt(body, ad) = {} => n[ad] = Absent
               /\ n[ad].t = "val" => CalleesAt(body, ad) \cap DistNames # {}
               /\ n[ad].t = "map" => "inner" \in CalleesAt(body, ad)}}

\* P.simulate(args)
CallSimulate ==
    /\ CanCall
    /\ FnEnter("outer", "simulate", arg0, Absent, Absent)
    /\ Begin("simulate", Absent)

\* P.assess(args, x): x is the choices of the last trace or any choice map
CallAssess ==
    /\ CanCall
    /\ \E x \in OuterChoices(prog.body, prog.inner)
               \cup (IF tr = Absent THEN {} ELSE {tr.choices}) :
          /\ FnEnter("outer", "assess", arg0, x, Absent)
          /\ Begin("assess", x)

\* P.update(args, tr, x)
CallUpdate ==
    /\ CanCall
    /\ tr # Absent
    /\ \E x \in OuterChoices(prog.body, prog.inner) :
          /\ FnEnter("outer", "update", arg0, x, tr)
          /\ Begin("update", x)

\* the address of the last site of the host function, traced nowhere else
LastAddr(body) == body[Len(body)].addr

LastSiteAlone(body) ==
    \A i \in 1 .. Len(body) - 1 : body[i].addr # LastAddr(body)

\* the trace of a run of the source that returned before its last site (the
\* source is python: it may branch on its state): the address of the site
\* is not in the trace map, its score not in the score, its value not in
\* the return value
Unreached(t, addr) ==
    LET sub == t.choices.m[addr]
    IN  Trace(t.gen_fn, t.args, Dict([t.choices.m EXCEPT ![addr] = Absent]),
              Combine(t.retval, sub.retval), FAdd(t.score, FNeg(get_score(sub))))

\* P.update(args, t, x) for a trace t that lacks the address of the last site
\* and a choice map x that has it
CallUpdateUnreached ==
    /\ CanCall
    /\ tr # Absent
    /\ LastSiteAlone(prog.body)
    /\ \E x \in OuterChoices(prog.body, prog.inner) :
          LET t == Unreached(tr, LastAddr(prog.body))
          IN  /\ x.m[LastAddr(prog.body)] # Absent
              /\ FnEnter("outer", "update", arg0, x, t)
              /\ status' = "running"
              /\ ncalls' = ncalls + 1
              /\ call' = [op |-> "update", x |-> x, stack0 |-> handler_stack,
                          old |-> t]
              /\ res' = Absent
              /\ UNCHANGED <<prog, arg0, tr, global_counter, gfi_frame>>

\* P.staged_implementation(args)
CallStage ==
    /\ CanCall
    /\ FnEnter("outer", "stage", arg0, Absent, Absent)
    /\ Begin("stage", Absent)

\* trace(addr, dist, args) called at top level, outside every generative
\* function: handler = handler_stack[-1], then handler(addr, dist, args).  On
\* an empty list the subscript raises; a handler an earlier raise left behind
\* takes the call.
CallTrace ==
    /\ CanCall
    /\ ncalls' = ncalls + 1
    /\ call' = [op |-> "trace", x |-> Absent, stack0 |-> handler_stack]
    /\ \E addr \in Addrs, d \in DistNames, a \in Args :
          IF handler_stack = <<>>
          THEN /\ status' = "raised"
               /\ res' = Exc("IndexError")
               /\ UNCHANGED <<handler_stack, global_counter>>
          ELSE LET h == Top(handler_stack)
               IN  IF h.kind \in {"Simulate", "Stage"}
                   THEN /\ global_counter' = global_counter + 1
                        /\ \E x \in Sampleable(d, a) :
                              LET sub == [t |-> "ok", tr |-> DistSimulate(d, a, x),
                                          w |-> Fin(0), r |-> x, discard |-> Absent]
                              IN  /\ handler_stack' =
                                       SetTop(handler_stack, Accumulate(h, addr, sub))
                                  /\ res' = [sub EXCEPT !.tr = Absent]
                        /\ status' = "returned"
                   ELSE LET l == IF h.kind = "Assess" THEN AssessLookup(h, addr)
                                 ELSE UpdateLookup(h, addr)
                            sub == IF l.t = "exc" THEN l
                                   ELSE IF h.kind = "Assess" THEN DistAssess(d, a, l)
                                   ELSE DistUpdate(d, a, l.subtrace, l.x)
                        IN  /\ UNCHANGED global_counter
                            /\ IF sub.t = "exc"
                               THEN /\ status' = "raised"
                                    /\ res' = sub
                                    /\ UNCHANGED handler_stack
                               ELSE /\ status' = "returned"
                                    /\ res' = [t |-> "ok", tr |-> Absent, w |-> Fin(0),
                                               r |-> sub.r, discard |-> Absent]
                                    /\ handler_stack' =
                                         SetTop(handler_stack, Accumulate(h, addr, sub))
    /\ UNCHANGED <<prog, arg0, frames, tr, gfi_frame>>

\* ---- steps of the host function ----

Running == status = "running" /\ frames # <<>>

AtStmt(k) ==
    /\ Running
    /\ Top(frames).pc <= Len(Body(Top(frames).fn))
    /\ Body(Top(frames).fn)[Top(frames).pc].k = k

CurStmt == Body(Top(frames).fn)[Top(frames).pc]

\* the host function raises
StepRaise ==
    /\ AtStmt("raise")
    /\ Propagate(Exc("HostException"))
    /\ UNCHANGED <<prog, arg0, call, ncalls, global_counter, gfi_frame>>

\* trace(addr, dist, args): the handler on top calls the distribution
StepTraceDist ==
    /\ AtStmt("trace")
    /\ CurStmt.callee \in DistNames
    /\ LET f == Top(frames)
           h == Top(handler_stack)
           d == CurStmt.callee
           addr == CurStmt.addr
       IN  IF h.kind \in {"Simulate", "Stage"}
           THEN \* gen_fn.simulate(args): the keyless sampler takes a fresh key
                /\ global_counter' = global_counter + 1
                /\ \E x \in Sampleable(d, f.acc) :
                      Resume(handler_stack, frames, addr,
                             [t |-> "ok", tr |-> DistSimulate(d, f.acc, x),
                              w |-> Fin(0), r |-> x, discard |-> Absent])
           ELSE /\ UNCHANGED global_counter
                /\ IF h.kind = "Assess"
                   THEN LET x == AssessLookup(h, addr)
                            sub == IF x.t = "exc" THEN x ELSE DistAssess(d, f.acc, x)
                        IN  IF sub.t = "exc" THEN Propagate(sub)
                            ELSE Resume(handler_stack, frames, addr, sub)
                   ELSE LET l == UpdateLookup(h, addr)
                            sub == IF l.t = "exc" THEN l
                                   ELSE DistUpdate(d, f.acc, l.subtrace, l.x)
                        IN  IF sub.t = "exc" THEN Propagate(sub)
                            ELSE Resume(handler_stack, frames, addr, sub)
    /\ UNCHANGED <<prog, arg0, call, ncalls, gfi_frame>>

\* trace(addr, fn, args) with a nested Fn: the handler on top calls
\* fn.simulate / fn.assess / fn.update, which pushes its own handler
StepTraceFn ==
    /\ AtStmt("trace")
    /\ CurStmt.callee = "inner"
    /\ LET f == Top(frames)
           h == Top(handler_stack)
           addr == CurStmt.addr
       IN  IF h.kind \in {"Simulate", "Stage"}
           THEN /\ FnEnter("inner", "simulate", f.acc, Absent, Absent)
                /\ UNCHANGED <<status, res, tr>>
           ELSE IF h.kind = "Assess"
           THEN LET x == AssessLookup(h, addr)
                IN  IF x.t = "exc" THEN Propagate(x)
                    ELSE /\ FnEnter("inner", "assess", f.acc, x, Absent)
                         /\ UNCHANGED <<status, res, tr>>
           ELSE LET l == UpdateLookup(h, addr)
                IN  IF l.t = "exc" THEN Propagate(l)
                    ELSE /\ FnEnter("inner", "update", f.acc, l.x, l.subtrace)
                         /\ UNCHANGED <<status, res, tr>>
    /\ UNCHANGED <<prog, arg0, call, ncalls, global_counter, gfi_frame>>

\* the host function returns: handler_stack.pop(), the isinstance assertion,
\* and the result; a nested call hands it to the handler of its caller
StepReturn ==
    /\ Running
    /\ Top(frames).pc > Len(Body(Top(frames).fn))
    /\ LET f == Top(frames)
           h == Top(handler_stack)
           stack == Pop(handler_stack)
           fs == Pop(frames)
           sub == FnResult(f, h)
       IN  IF h.kind # KindOf(f.op)
           THEN /\ frames' = <<>>
                /\ status' = "raised"
                /\ res' = Exc("AssertionError")
                /\ handler_stack' = stack
                /\ UNCHANGED tr
           ELSE IF fs = <<>>
           THEN /\ frames' = fs
                /\ handler_stack' = stack
                /\ status' = "returned"
                /\ res' = sub
                /\ tr' = IF f.op = "simulate" THEN sub.tr ELSE tr
           ELSE Resume(stack, fs, Body(Top(fs).fn)[Top(fs).pc].addr, sub)
    /\ UNCHANGED <<prog, arg0, call, ncalls, global_counter, gfi_frame>>

\* the seed interpreter and the lowering rule have not been used
SeedIdle ==
    /\ graph = <<>>
    /\ jaxpr_cache = <<>>
    /\ lowering_warning = TRUE
    /\ enforce_lowering_exception = TRUE
    /\ seed_log = <<>>
    /\ last = [called |-> FALSE]
    /\ low = [outcome |-> "none"]
    /\ warned = FALSE

MaxVars == 2       \* variables of the graph an environment is used for
MaxEnvOps == 3     \* reads and writes of one interpretation pass

\* Var.count of the variables, and of the drop variable
VarCounts == 1 .. MaxVars
EnvKeys == 0 .. MaxVars

\* nothing has been projected
ProjIdle ==
    /\ pj_hist = <<>>
    /\ pj_log = <<>>

\* no choice map has been built
HeapIdle ==
    /\ mg_heap = <<>>
    /\ mg_out = Absent
    /\ mg_calls = 0

\* no assume node is being followed
NodeIdle ==
    /\ nd_params = Absent
    /\ nd_bound = Absent
    /\ nd_enum = Absent

\* the enumeration loop is not being followed
LoopIdle ==
    /\ el_eqns = <<>>
    /\ el_stack = <<>>
    /\ el_status = "idle"
    /\ el_depth = 0

\* no trace has been asked for its blanket
BlanketIdle ==
    /\ bk_jaxpr = <<>>
    /\ bk_tr = <<>>
    /\ bk_call = Absent
    /\ bk_out = Absent

\* collect not called
CollectIdle ==
    /\ co_graph = <<>>
    /\ co_status = "idle"
    /\ co_pc = 0
    /\ co_env = <<>>
    /\ co_score = Absent
    /\ co_out = Absent

\* Environment(): an empty dict
EnvIdle ==
    /\ ev_env = [n \in EnvKeys |-> Absent]
    /\ ev_written = {}
    /\ ev_last = Absent
    /\ ev_ops = 0

\* no discretize call made; no distribution of distributions.py is built with a discretization
DiscIdle ==
    /\ discretization = {}
    /\ dz_call = Absent
    /\ dz_out = Absent

\* an assume node under no modular_vmap: batch_shape = ()
VmapIdle ==
    /\ vm_batch_shape = <<>>
    /\ vm_arg = <<>>
    /\ vm_levels = <<>>
    /\ vm_out = Absent

\* no selection has been built: sel() is match-none
SelIdle ==
    /\ sel_cur = [k |-> "S", s |-> [k |-> "none"]]
    /\ sel_last = [addr |-> "-", check |-> FALSE]
    /\ sel_depth = 0
    /\ sel_ops = 0

\* nothing has been projected or enumerated
EnumIdle ==
    /\ constraint = Absent
    /\ estatus = "idle"
    /\ egraph = Absent
    /\ epc = 0
    /\ lanes = <<>>
    /\ enum_out = Absent
    /\ ve_out = Absent
    /\ gen_out = Absent
    /\ supported = DistNames

InitGFI ==
    /\ prog \in {[body |-> b, inner |-> i] : b \in Bodies, i \in InnerBodies}
    /\ arg0 \in Args
    /\ handler_stack = <<>>
    /\ frames = <<>>
    /\ status = "idle"
    /\ call = [op |-> "none", x |-> Absent, stack0 |-> <<>>]
    /\ tr = Absent
    /\ res = Absent
    /\ ncalls = 0
    /\ global_counter = 0
    /\ SeedIdle
    /\ EnumIdle
    /\ SelIdle
    /\ VmapIdle
    /\ DiscIdle
    /\ EnvIdle
    /\ CollectIdle
    /\ BlanketIdle
    /\ LoopIdle
    /\ NodeIdle
    /\ HeapIdle
    /\ ProjIdle

NextGFI ==
    \/ CallSimulate
    \/ CallAssess
    \/ CallUpdate
    \/ CallUpdateUnreached
    \/ CallStage
    \/ CallTrace
    \/ StepRaise
    \/ StepTraceDist
    \/ StepTraceFn
    \/ StepReturn

SpecGFI == InitGFI /\ [][NextGFI]_vars


-----------------------------------------------------------------------------
(* Fn.assess as one evaluation: the weight and return value the call        *)
(* yields for a choice map, or the exception it raises.                     *)

RECURSIVE AssessRun(_, _, _, _, _)
AssessRun(fn, i, acc, x, w) ==
    LET body == Body(fn)
    IN  IF i > Len(body) THEN [t |-> "ok", w |-> w, r |-> acc]
        ELSE IF body[i].k = "raise" THEN Exc("HostException")
        ELSE LET c == AssessLookup(Handler("Assess", x, Absent), body[i].addr)
                 sub == IF c.t = "exc" THEN c
                        ELSE IF body[i].callee \in DistNames
                        THEN DistAssess(body[i].callee, acc, c)
                        ELSE AssessRun(body[i].callee, 1, acc, c, Fin(0))
             IN  IF sub.t = "exc" THEN sub
                 ELSE AssessRun(fn, i + 1, Combine(acc, sub.r), x, FAdd(w, sub.w))

FnAssess(fn, args, x) == AssessRun(fn, 1, args, x, Fin(0))

-----------------------------------------------------------------------------
(* Properties of the generative function interface.                        *)

\* every address is traced at most once by either host function
DistinctAddrs(body) ==
    \A i, j \in 1 .. Len(body) :
        (i # j /\ body[i].k = "trace" /\ body[j].k = "trace")
            => body[i].addr # body[j].addr

AssessedLastTrace ==
    /\ status = "returned"
    /\ call.op = "assess"
    /\ tr # Absent
    /\ call.x = tr.choices

\* C1: for a trace t = P.simulate(a), P.assess(a, t.choices) returns the
\* weight -t.score and the return value t.retval.
DensityConsistent ==
    AssessedLastTrace => (FEq(res.w, FNeg(tr.score)) /\ res.r = tr.retval)

\* C1 restricted to host functions that trace every address once.
DensityConsistentDistinctAddrs ==
    (AssessedLastTrace /\ DistinctAddrs(prog.body))
        => (FEq(res.w, FNeg(tr.score)) /\ res.r = tr.retval)

\* P.update(a, t, c) has returned for a choice map c that P.assess accepts
UpdatedComplete ==
    /\ status = "returned"
    /\ call.op = "update"
    /\ FnAssess("outer", arg0, call.x).t = "ok"

\* the scores stored in t at the addresses of the trace sites of fn, one
\* summand per site
RECURSIVE VisitedScore(_, _, _)
VisitedScore(fn, i, t) ==
    IF i > Len(Body(fn)) THEN Fin(0)
    ELSE LET sub == t.choices.m[Body(fn)[i].addr]
         IN  FAdd(IF Body(fn)[i].callee \in DistNames THEN get_score(sub)
                  ELSE VisitedScore(Body(fn)[i].callee, 1, sub),
                  VisitedScore(fn, i + 1, t))

\* C2 as stated: update(a, t, c) returns the weight
\* assess(a, c).density - t.score, t.score being the score stored in t.
UpdateWeightMinusScore ==
    UpdatedComplete
        => FEq(res.w, FAdd(FnAssess("outer", arg0, call.x).w, FNeg(get_score(tr))))

\* C2 amended: update(a, t, c) returns the weight assess(a, c).density + s,
\* s being the sum over the trace sites of the score stored in t at the
\* site's address; s is t.score when every address is traced once.
UpdateWeightPlusScore ==
    UpdatedComplete
        => /\ FEq(res.w, FAdd(FnAssess("outer", arg0, call.x).w,
                              VisitedScore("outer", 1, tr)))
           /\ (DistinctAddrs(prog.body) /\ DistinctAddrs(prog.inner))
                 => FEq(res.w, FAdd(FnAssess("outer", arg0, call.x).w,
                                    get_score(tr)))

\* an update of a trace of non-zero score, through a nested program, to
\* choices of a different density
UpdatedNestedWitness ==
    /\ UpdatedComplete
    /\ UsesInner(prog.body)
    /\ DistinctAddrs(prog.body)
    /\ Len(prog.body) = 2
    /\ get_score(tr) # Fin(0)
    /\ res.w # Fin(0)
    /\ get_choices(res.tr) # get_choices(tr)

\* C3: once a call of Fn.simulate / assess / update / staged_implementation
\* has returned or raised, the handler stack is what it was before the call.
HandlerStackRestored ==
    status \in {"returned", "raised"} => handler_stack = call.stack0

-----------------------------------------------------------------------------
(* PRNG keys.  A key is the sequence of derivations that produced it:      *)
(* jrand.key(n) is <<n>>, split appends 0 (the carried key) or 1 (the      *)
(* sub-key), fold_in(key, i) appends 2 + i.                                *)

Key(n) == <<n>>

\* self.key, sub_key = jrand.split(self.key)
Split(key) == <<Append(key, 0), Append(key, 1)>>

FoldIn(key, idx) == Append(key, 2 + idx)

RECURSIVE SumSeq(_)
SumSeq(q) == IF q = <<>> THEN 0 ELSE Head(q) + SumSeq(Tail(q))

\* keyful_sampler(key, *args): a value fixed by the key and the arguments
Draw(key, a) == (SumSeq(key) + Len(key) + a) % 2

UserKeys == {Key(0), Key(1)}

-----------------------------------------------------------------------------
(* Computation graphs (jaxprs).  The graph threads one value: every node   *)
(* reads the current value and writes the next one.                        *)
(*   assume  draws from a sampler parameterised by the value               *)
(*   op      a deterministic primitive                                     *)
(*   cond    cond_p: the value is the branch index, sub holds the branches *)
(*   scan    scan_p: sub holds the body, run length times (ScanLength      *)
(*           where the node does not say), from the last index if reverse  *)
(*   call    any other primitive that carries a sub-graph and is compiled  *)
(*           when bound (pjit, while_p), sub holds the sub-graph           *)
(* baked is the PRNG seed the keyless implementation of an assume node     *)
(* got from the global counter when the node was staged (0: not staged).   *)

MaxNodes == 2      \* nodes at the top level of the graph
ScanLength == 2    \* params["length"] of a scan node
MaxCount == 4      \* values of the global key counter
MaxSeedCalls == 2  \* calls of seed(f)

Node(k, sub) == [k |-> k, sub |-> sub, baked |-> 0]
AssumeNode == Node("assume", <<>>)
OpNode == Node("op", <<>>)
CondNode(b0, b1) == Node("cond", <<b0, b1>>)
ScanNode(body) == Node("scan", <<body>>)
CallNode(body) == Node("call", <<body>>)

\* scan_p with its params["length"] and params["reverse"] given
ScanNodeWith(body, length, reverse) ==
    [k |-> "scan", sub |-> <<body>>, baked |-> 0, length |-> length,
     reverse |-> reverse]

ScanParamLength(n) == IF "length" \in DOMAIN n THEN n.length ELSE ScanLength
ScanParamReverse(n) == IF "reverse" \in DOMAIN n THEN n.reverse ELSE FALSE

\* jnp.arange(length) in the order scan runs the iterations: from the last
\* index down when reverse is set
ScanIdxs(n) ==
    [i \in 1 .. ScanParamLength(n) |->
        IF ScanParamReverse(n) THEN ScanParamLength(n) - i ELSE i - 1]

SeedNodes ==
    {AssumeNode, OpNode,
     CondNode(<<AssumeNode>>, <<AssumeNode, AssumeNode>>),
     CondNode(<<OpNode>>, <<CallNode(<<ScanNode(<<AssumeNode>>)>>)>>),
     ScanNode(<<AssumeNode>>),
     CallNode(<<CondNode(<<AssumeNode>>, <<OpNode>>)>>)}

Graphs == UNION {[1 .. n -> SeedNodes] : n \in 1 .. MaxNodes}

\* stage(f): the python function runs once under tracing; every assume it
\* binds stages its keyless implementation, which takes the next value of the
\* global counter and bakes jrand.key(count) into the node.  Sub-graphs are
\* traced where they stand.  [g: the staged graph, c: the counter afterwards]
RECURSIVE StageGraph(_, _)
RECURSIVE StageSubs(_, _)
StageGraph(g, c) ==
    IF g = <<>> THEN [g |-> <<>>, c |-> c]
    ELSE LET n == Head(g)
             ss == StageSubs(n.sub, c)
             h == IF n.k = "assume"
                  THEN [n |-> [n EXCEPT !.baked = c + 1], c |-> c + 1]
                  ELSE [n |-> [n EXCEPT !.sub = ss.g], c |-> ss.c]
             t == StageGraph(Tail(g), h.c)
         IN  [g |-> <<h.n>> \o t.g, c |-> t.c]

StageSubs(subs, c) ==
    IF subs = <<>> THEN [g |-> <<>>, c |-> c]
    ELSE LET h == StageGraph(Head(subs), c)
             t == StageSubs(Tail(subs), h.c)
         IN  [g |-> <<h.g>> \o t.g, c |-> t.c]

RECURSIVE HasAssume(_)
HasAssume(g) ==
    \E i \in 1 .. Len(g) :
        \/ g[i].k = "assume"
        \/ \E j \in 1 .. Len(g[i].sub) : HasAssume(g[i].sub[j])

Site(path, key, mode) == [path |-> path, key |-> key, mode |-> mode]

-----------------------------------------------------------------------------
(* Evaluation of a staged graph as it stands (eqn.primitive.bind of a node *)
(* that carries it, jc.eval_jaxpr): an assume node runs its implementation,*)
(* the staged keyless sampler with its baked key.                          *)
(* [acc: the value produced, sites: the sampling sites run, in order]      *)

RECURSIVE EvalFrom(_, _, _, _)
RECURSIVE EvalIter(_, _, _, _)

\* the graph at path p: its node i stands at path p \o <<i>>
EvalGraph(g, acc, p) == EvalFrom(g, 1, acc, p)

EvalNode(n, acc, p) ==
    IF n.k = "assume"
    THEN [acc |-> Combine(acc, Draw(Key(n.baked), acc)),
          sites |-> <<Site(p, Key(n.baked), "keyless")>>]
    ELSE IF n.k = "op" THEN [acc |-> 1 - acc, sites |-> <<>>]
    ELSE IF n.k = "cond" THEN EvalGraph(n.sub[acc + 1], acc, Append(p, acc))
    ELSE IF n.k = "scan" THEN EvalIter(n.sub[1], ScanIdxs(n), acc, p)
    ELSE EvalGraph(n.sub[1], acc, Append(p, 0))

EvalFrom(g, i, acc, p) ==
    IF i > Len(g) THEN [acc |-> acc, sites |-> <<>>]
    ELSE LET h == EvalNode(g[i], acc, Append(p, i))
             t == EvalFrom(g, i + 1, h.acc, p)
         IN  [acc |-> t.acc, sites |-> h.sites \o t.sites]

EvalIter(body, idxs, acc, p) ==
    IF idxs = <<>> THEN [acc |-> acc, sites |-> <<>>]
    ELSE LET h == EvalGraph(body, acc, Append(p, Head(idxs)))
             t == EvalIter(body, Tail(idxs), h.acc, p)
         IN  [acc |-> t.acc, sites |-> h.sites \o t.sites]

-----------------------------------------------------------------------------
(* SeedInterpreter.eval_jaxpr_seed.                                        *)
(* [acc: the value produced, key: self.key afterwards, sites: the sampling *)
(*  sites run, keys: self.key after each node of the graph]                *)

RECURSIVE SeedFrom(_, _, _, _, _)
RECURSIVE SeedIter(_, _, _, _, _)

\* seed(f)(key, *args) on an already staged f
SeedGraph(g, key, acc, p) == SeedFrom(g, 1, key, acc, p)

\* primitive == assume_p
SeedAssume(n, key, acc, p) ==
    LET s == Split(key)
    IN  [acc |-> Combine(acc, Draw(s[2], acc)), key |-> s[1],
         sites |-> <<Site(p, s[2], "seeded")>>]

\* primitive == cond_p, the branch interpreter ending with another key than
\* the one it was given handing that key back to the caller
SeedCondThreaded(n, key, acc, p) ==
    LET s == Split(key)
        r == SeedGraph(n.sub[acc + 1], s[2], acc, Append(p, acc))
    IN  [acc |-> r.acc, key |-> r.key, sites |-> r.sites]

\* primitive == cond_p
SeedCond(n, key, acc, p) ==
    LET s == Split(key)
        r == SeedGraph(n.sub[acc + 1], s[2], acc, Append(p, acc))
    IN  [acc |-> r.acc, key |-> s[1], sites |-> r.sites]

\* primitive == scan_p
SeedScan(n, key, acc, p) ==
    LET s == Split(key)
        r == SeedIter(n.sub[1], s[2], ScanIdxs(n), acc, p)
    IN  [acc |-> r.acc, key |-> s[1], sites |-> r.sites, iters |-> r.iters]

\* one iteration of new_body: [idx, carried: the key of the carry the
\* iteration received, key: the key its body is seeded with]
Iteration(idx, carried, key) == [idx |-> idx, carried |-> carried, key |-> key]

\* new_body of the scan case with the carried key split in every iteration
SeedIterSplitting(body, key, idxs, acc, p) ==
    IF idxs = <<>> THEN [acc |-> acc, sites |-> <<>>, iters |-> <<>>]
    ELSE LET s == Split(key)
             h == SeedGraph(body, s[2], acc, Append(p, Head(idxs)))
             t == SeedIter(body, s[1], Tail(idxs), h.acc, p)
         IN  [acc |-> t.acc, sites |-> h.sites \o t.sites,
              iters |-> <<Iteration(Head(idxs), key, s[2])>> \o t.iters]

\* new_body of the scan case, run over the indices in scan order: the key of
\* the carry is handed on as it came
SeedIter(body, key, idxs, acc, p) ==
    IF idxs = <<>> THEN [acc |-> acc, sites |-> <<>>, iters |-> <<>>]
    ELSE LET sub_key == FoldIn(key, Head(idxs))
             h == SeedGraph(body, sub_key, acc, Append(p, Head(idxs)))
             t == SeedIter(body, key, Tail(idxs), h.acc, p)
         IN  [acc |-> t.acc, sites |-> h.sites \o t.sites,
              iters |-> <<Iteration(Head(idxs), key, sub_key)>> \o t.iters]

\* else: outvals = eqn.primitive.bind(*args, **params)
SeedOther(n, key, acc, p) ==
    LET r == EvalNode(n, acc, p)
    IN  [acc |-> r.acc, key |-> key, sites |-> r.sites]

SeedNode(n, key, acc, p) ==
    IF n.k = "assume" THEN SeedAssume(n, key, acc, p)
    ELSE IF n.k = "cond" THEN SeedCond(n, key, acc, p)
    ELSE IF n.k = "scan" THEN SeedScan(n, key, acc, p)
    ELSE SeedOther(n, key, acc, p)

SeedFrom(g, i, key, acc, p) ==
    IF i > Len(g) THEN [acc |-> acc, key |-> key, sites |-> <<>>, keys |-> <<>>]
    ELSE LET h == SeedNode(g[i], key, acc, Append(p, i))
             t == SeedFrom(g, i + 1, h.key, h.acc, p)
         IN  [acc |-> t.acc, key |-> t.key, sites |-> h.sites \o t.sites,
              keys |-> <<h.key>> \o t.keys]

-----------------------------------------------------------------------------
(* The lowering rule of InitialStylePrimitive, and what gets lowered.      *)

\* the params assume_binder binds assume_p with
AssumeParams == {"keyful_sampler", "flat_keyful_sampler", "batch", "support",
                 "lowering_warning", "lowering_exception"}

\* InitialStylePrimitive.lowering: "warn" and "lower" both go on to lower the
\* implementation, "raise" raises params["lowering_exception"]
LoweringRule(params, lw, ele) ==
    IF "lowering_warning" \in params /\ lw THEN "warn"
    ELSE IF "lowering_exception" \in params /\ ele THEN "raise"
    ELSE "lower"

\* the seeded pass binds a node that is compiled with an assume node inside:
\* a call node, at the top level or inside the branches and bodies the pass
\* recurses into
RECURSIVE SeedLowers(_)
SeedLowers(g) ==
    \E i \in 1 .. Len(g) :
        \/ g[i].k = "call" /\ HasAssume(g[i].sub[1])
        \/ g[i].k \in {"cond", "scan"}
              /\ \E j \in 1 .. Len(g[i].sub) : SeedLowers(g[i].sub[j])

\* the keys baked into the assume nodes of a staged graph
RECURSIVE BakedKeys(_)
BakedKeys(g) ==
    UNION {IF g[i].k = "assume" THEN {Key(g[i].baked)}
           ELSE UNION {BakedKeys(g[i].sub[j]) : j \in 1 .. Len(g[i].sub)}
           : i \in 1 .. Len(g)}

-----------------------------------------------------------------------------
(* Actions of the seed interpreter and the lowering rule.                  *)

\* seed(f)(key, a).  run_interpreter stages f through cached_stage_dynamic:
\* on a hit the graph staged before is used again, on a miss f is traced
\* afresh.  Then eval_jaxpr_seed runs the staged graph.
SeedCall ==
    /\ Len(seed_log) < MaxSeedCalls
    /\ \E key \in UserKeys, a \in Args, hit \in BOOLEAN :
          /\ hit => jaxpr_cache # <<>>
          /\ LET st == IF hit THEN [g |-> jaxpr_cache, c |-> global_counter]
                       ELSE StageGraph(graph, global_counter)
                 rule == LoweringRule(AssumeParams, lowering_warning,
                                      enforce_lowering_exception)
                 lowers == SeedLowers(st.g)
                 r == SeedGraph(st.g, key, a, <<>>)
                 out == IF lowers /\ rule = "raise"
                        THEN Exc("LoweringSamplePrimitiveToMLIRException")
                        ELSE [t |-> "ok", r |-> r.acc]
             IN  /\ st.c <= MaxCount
                 /\ global_counter' = st.c
                 /\ jaxpr_cache' = st.g
                 /\ seed_log' = Append(seed_log, [key |-> key, a |-> a, out |-> out])
                 /\ last' = [called |-> TRUE, key |-> key, a |-> a,
                             staged |-> st.g, out |-> out]
                 /\ warned' = (warned \/ (lowers /\ rule = "warn"))
    /\ UNCHANGED <<graph, lowering_warning, enforce_lowering_exception, low,
                   seed_frame>>

\* a sampler called outside any seed: assume_binder.keyless
KeylessSample ==
    /\ global_counter < MaxCount
    /\ global_counter' = global_counter + 1
    /\ UNCHANGED <<seed_vars, seed_frame>>

\* jax.jit(f)(a) without seed: f is traced and the graph is lowered, the
\* lowering rule running for every assume node of it
JitCall ==
    /\ LET st == StageGraph(graph, global_counter)
           rule == LoweringRule(AssumeParams, lowering_warning,
                                enforce_lowering_exception)
           has == HasAssume(st.g)
           raised == has /\ rule = "raise"
       IN  /\ st.c <= MaxCount
           /\ global_counter' = st.c
           /\ low' = [outcome |-> IF raised THEN "raised" ELSE "lowered",
                      assume |-> has,
                      lw |-> lowering_warning,
                      ele |-> enforce_lowering_exception,
                      baked |-> IF raised THEN {} ELSE BakedKeys(st.g)]
           /\ warned' = (warned \/ (has /\ rule = "warn"))
    /\ UNCHANGED <<graph, jaxpr_cache, lowering_warning,
                   enforce_lowering_exception, seed_log, last, seed_frame>>

\* the module flags are plain globals a user can assign
SetFlags ==
    /\ \E lw, ele \in BOOLEAN :
          /\ <<lw, ele>> # <<lowering_warning, enforce_lowering_exception>>
          /\ lowering_warning' = lw
          /\ enforce_lowering_exception' = ele
    /\ UNCHANGED <<graph, jaxpr_cache, seed_log, last, low, warned,
                   global_counter, seed_frame>>

\* no generative function is being called
GFIIdle ==
    /\ prog = [body |-> <<TraceStmt("a", "flip")>>,
               inner |-> <<TraceStmt("a", "coin")>>]
    /\ arg0 = 0
    /\ handler_stack = <<>>
    /\ frames = <<>>
    /\ status = "idle"
    /\ call = [op |-> "none", x |-> Absent, stack0 |-> <<>>]
    /\ tr = Absent
    /\ res = Absent
    /\ ncalls = 0

\* a fresh process; the warning flag is as the user left it
InitSeed ==
    /\ GFIIdle
    /\ global_counter = 0
    /\ graph \in Graphs
    /\ jaxpr_cache = <<>>
    /\ lowering_warning \in BOOLEAN
    /\ enforce_lowering_exception = TRUE
    /\ seed_log = <<>>
    /\ last = [called |-> FALSE]
    /\ low = [outcome |-> "none"]
    /\ warned = FALSE
    /\ EnumIdle
    /\ SelIdle
    /\ VmapIdle
    /\ DiscIdle
    /\ EnvIdle
    /\ CollectIdle
    /\ BlanketIdle
    /\ LoopIdle
    /\ NodeIdle
    /\ HeapIdle
    /\ ProjIdle

\* sessions of seeded calls among unseeded sampling
NextSeed ==
    \/ SeedCall
    \/ KeylessSample

SpecSeed == InitSeed /\ [][NextSeed]_vars

\* sessions of unseeded compilation
NextLower ==
    \/ JitCall
    \/ SetFlags
    \/ KeylessSample

SpecLower == InitSeed /\ [][NextLower]_vars

-----------------------------------------------------------------------------
(* Properties of the seed interpreter and the lowering rule.               *)

\* the run of the last call seed(f)(key, a)
LastRun == SeedGraph(last.staged, last.key, last.a, <<>>)

\* C4: two calls seed(f)(k, a) with the same key and the same arguments
\* return the same result, whatever happened to the global counter around them.
SeedDeterministic ==
    \A i, j \in 1 .. Len(seed_log) :
        (/\ seed_log[i].key = seed_log[j].key
         /\ seed_log[i].a = seed_log[j].a
         /\ seed_log[i].out.t = "ok"
         /\ seed_log[j].out.t = "ok")
            => seed_log[i].out.r = seed_log[j].out.r

\* C4 restricted to graphs whose assume nodes all stand where the seeded
\* pass recurses: at the top level, in branches and in scan bodies.
SeedDeterministicInterpreted ==
    (~SeedLowers(StageGraph(graph, 0).g)) => SeedDeterministic

\* C5: a cond node of a seeded pass takes exactly one split of the carried key
\* whichever branch runs; the carried key after it and the key of every
\* sampling site are the same for every value of the branch index.
CondConsumesOneSplit ==
    last.called =>
        \A a2 \in Args :
            LET g == last.staged
                r1 == LastRun
                r2 == SeedGraph(g, last.key, a2, <<>>)
            IN  /\ \A i \in 1 .. Len(g) :
                      g[i].k = "cond" =>
                          /\ r2.keys[i] =
                                Split(IF i = 1 THEN last.key ELSE r2.keys[i - 1])[1]
                          /\ r2.keys[i] = r1.keys[i]
                /\ r2.key = r1.key
                /\ \A m \in 1 .. Len(r1.sites), n \in 1 .. Len(r2.sites) :
                      r1.sites[m].path = r2.sites[n].path
                          => r1.sites[m].key = r2.sites[n].key

\* a seeded call whose graph has a cond node with branches of one and of two
\* assume nodes, followed by an assume node, and whose other branch runs for
\* another argument
CondBranchesWitness ==
    /\ last.called
    /\ last.out.t = "ok"
    /\ \E i \in 1 .. Len(last.staged) - 1 :
          /\ last.staged[i].k = "cond"
          /\ Len(last.staged[i].sub[1]) # Len(last.staged[i].sub[2])
          /\ HasAssume(last.staged[i].sub[1])
          /\ last.staged[i + 1].k = "assume"
    /\ \E a2 \in Args :
          Len(SeedGraph(last.staged, last.key, a2, <<>>).sites) # Len(LastRun.sites)

\* C6: in a call seed(f)(key, a) no assume node runs its keyless
\* implementation; every sampling site gets a key derived from `key`.
NoKeylessSiteUnderSeed ==
    (last.called /\ last.out.t = "ok")
        => \A m \in 1 .. Len(LastRun.sites) : LastRun.sites[m].mode = "seeded"

\* C6 restricted to graphs whose assume nodes all stand where the seeded
\* pass recurses.
NoKeylessSiteInterpreted ==
    (last.called /\ ~SeedLowers(last.staged))
        => \A m \in 1 .. Len(LastRun.sites) : LastRun.sites[m].mode = "seeded"

\* C7: under the default flags, lowering a graph that holds an assume node
\* raises LoweringSamplePrimitiveToMLIRException and bakes no key.
LoweringRaisesByDefault ==
    (low.outcome # "none" /\ low.assume /\ low.lw /\ low.ele)
        => (low.outcome = "raised" /\ low.baked = {})

\* with the warning flag off and the enforcement flag on, it does.
LoweringRaisesWhenNotWarning ==
    (low.outcome # "none" /\ low.assume /\ ~low.lw /\ low.ele)
        => (low.outcome = "raised" /\ low.baked = {})

-----------------------------------------------------------------------------
(* Projection, lowering to the enumeration language, exhaustive            *)
(* enumeration and tagged broadcast.                                        *)
(*                                                                         *)
(* A staged enumeration program is a list of equations over numbered       *)
(* variables: variable 1 is the argument, equation j defines variable      *)
(* j + 1.  x holds, per address, the variable of the enumerated choice;    *)
(* ret is the variable returned.                                            *)

\* flip and bernoulli: support = [False, True], whatever the arguments; a
\* distribution built with support=None has none
Support(d, a) == <<0, 1>>

EAssume(d, y)     == [k |-> "assume",  d |-> d,   x |-> 0, y |-> y, c |-> 0]
EObserve(d, x, y) == [k |-> "observe", d |-> d,   x |-> x, y |-> y, c |-> 0]
EConst(c)         == [k |-> "const",   d |-> "-", x |-> 0, y |-> 0, c |-> c]
EAdd(x, y)        == [k |-> "add",     d |-> "-", x |-> x, y |-> y, c |-> 0]

\* python truthiness of a constraint: None, {} and 0 are false
Truthy(x) ==
    IF x = Absent THEN FALSE
    ELSE IF x.t = "val" THEN x.v # 0
    ELSE \E ad \in Addrs : x.m[ad] # Absent

\* Fn.project(args, x) = RMFn(self, x if x else {})
FnProject(x) == IF Truthy(x) THEN x ELSE Dict(EmptyMap)

\* Fn._stage(args): the source runs once under the Stage handler; every traced
\* distribution stages its keyless sampler (one counter value each), a nested
\* function is traced through its simulate.  A raise in the source leaves with
\* the sites before it staged.  [raised, n: sites staged]
RECURSIVE StageRun(_, _, _)
StageRun(fn, i, n) ==
    IF i > Len(Body(fn)) THEN [raised |-> FALSE, n |-> n]
    ELSE LET s == Body(fn)[i]
         IN  IF s.k = "raise" THEN [raised |-> TRUE, n |-> n]
             ELSE IF s.callee = "inner"
                  THEN StageRun(fn, i + 1, StageRun("inner", 1, n).n)
                  ELSE StageRun(fn, i + 1, n + 1)

LowerExc(name, n) == [t |-> "exc", e |-> name, n |-> n]

\* Distribution.lower_enum: v = self.rv(*args) -- assume, then observe its own
\* log density -- and the host function goes on with v
LowerFree(d, acc, g, addr) ==
    LET v == Len(g.eqns) + 2
    IN  [eqns |-> g.eqns \o <<EAssume(d, acc), EObserve(d, v, acc), EAdd(acc, v)>>,
         x |-> [g.x EXCEPT ![addr] = Leaf(v)],
         n |-> g.n + 1]

\* RMDistribution.lower_enum with the observation left out
LowerConstrainedUnobserved(d, c, acc, g) ==
    LET v == Len(g.eqns) + 2
    IN  [eqns |-> g.eqns \o <<EConst(c), EAdd(acc, v), EAdd(acc, v)>>,
         x |-> g.x,
         n |-> g.n]

\* RMDistribution.lower_enum: v = self.constraint; observe(v, *args)
LowerConstrained(d, c, acc, g) ==
    LET v == Len(g.eqns) + 2
    IN  [eqns |-> g.eqns \o <<EConst(c), EObserve(d, v, acc), EAdd(acc, v)>>,
         x |-> g.x,
         n |-> g.n]

\* RMFn.lower_enum: stage the function, then RMFn.eval_jaxpr_lower_enum over its
\* equations: at a trace site the callee is projected on constraint[addr] (or
\* None) and lowered where it stands; x[addr] is written only when addr is
\* not in the constraint.  g = [eqns, x, n] is the program built so far.
RECURSIVE RMFnLower(_, _, _, _)
RECURSIVE LowerFrom(_, _, _, _, _)
RMFnLower(fn, cons, acc, g) ==
    LET st == StageRun(fn, 1, g.n)
    IN  IF st.raised THEN LowerExc("HostException", st.n)
        ELSE LowerFrom(fn, 1, cons, acc, [g EXCEPT !.n = st.n])

LowerFrom(fn, i, cons, acc, g) ==
    IF i > Len(Body(fn))
    THEN [t |-> "ok", eqns |-> g.eqns, x |-> g.x, n |-> g.n, acc |-> acc]
    ELSE LET s == Body(fn)[i]
         IN  IF s.k = "raise" THEN LowerExc("HostException", g.n)
             ELSE IF cons.t # "map" THEN LowerExc("TypeError", g.n)
             ELSE LET sub == cons.m[s.addr]
                  IN  IF s.callee \in DistNames
                      THEN IF sub = Absent
                           THEN LowerFrom(fn, i + 1, cons, Len(g.eqns) + 4,
                                          LowerFree(s.callee, acc, g, s.addr))
                           ELSE IF sub.t # "val" THEN LowerExc("TypeError", g.n)
                           ELSE LowerFrom(fn, i + 1, cons, Len(g.eqns) + 4,
                                          LowerConstrained(s.callee, sub.v, acc, g))
                      ELSE LET r == RMFnLower("inner", FnProject(sub), acc,
                                              [eqns |-> g.eqns, x |-> EmptyMap,
                                               n |-> g.n])
                           IN  IF r.t = "exc" THEN r
                               ELSE LowerFrom(fn, i + 1, cons, Len(r.eqns) + 2,
                                      [eqns |-> r.eqns \o <<EAdd(acc, r.acc)>>,
                                       x |-> IF sub = Absent
                                             THEN [g.x EXCEPT ![s.addr] = Dict(r.x)]
                                             ELSE g.x,
                                       n |-> r.n])

\* the program P.project(args, constraint).lower_enum(args) stages to
Lowered(cons, n) ==
    RMFnLower("outer", cons, 1, [eqns |-> <<>>, x |-> EmptyMap, n |-> n])

\* ---- the enumeration interpreter over the collected program ----

\* one execution of the continuation: the environment (a value per variable)
\* and the score the collect interpreter has accumulated
Lane(env, score) == [env |-> env, score |-> score]

Val(env, v) == env[v].v

\* modular_vmap(continuation, in_axes=0)(support) with the first value only
FanOutFirst(ls, support) ==
    [i \in 1 .. Len(ls) * Len(support) |->
        LET l == ls[((i - 1) \div Len(support)) + 1]
        IN  Lane(Append(l.env, Leaf(support[1])), l.score)]

\* modular_vmap(continuation, in_axes=0)(support): the rest of the program runs
\* once per support value; the new axis is the innermost of the ones so far
FanOut(ls, support) ==
    [i \in 1 .. Len(ls) * Len(support) |->
        LET l == ls[((i - 1) \div Len(support)) + 1]
            v == support[((i - 1) % Len(support)) + 1]
        IN  Lane(Append(l.env, Leaf(v)), l.score)]

\* a non-assume equation, rebound; collect adds the output of observe_p to
\* the score
EvalEqn(e, l) ==
    IF e.k = "observe"
    THEN LET w == logpdf(e.d, Val(l.env, e.x), Val(l.env, e.y))
         IN  Lane(Append(l.env, w), FAdd(l.score, w))
    ELSE IF e.k = "const" THEN Lane(Append(l.env, Leaf(e.c)), l.score)
    ELSE Lane(Append(l.env, Leaf(Combine(Val(l.env, e.x), Val(l.env, e.y)))),
              l.score)

\* the choice pytree of one lane
RECURSIVE ResolveChoices(_, _)
ResolveChoices(x, env) ==
    [ad \in Addrs |->
        IF x[ad] = Absent THEN Absent
        ELSE IF x[ad].t = "val" THEN Leaf(Val(env, x[ad].v))
        ELSE Dict(ResolveChoices(x[ad].m, env))]

\* ---- tagged broadcast ----

\* the names ve.py imports from .core, and the ones core.py defines
VEImports == {"Any", "Callable", "ElaboratedPrimitive", "Environment", "Pytree",
              "assume_p", "modular_vmap", "observe_p", "stage"}
CoreDefines == {"Any", "Callable", "ElaboratedPrimitive", "Environment",
                "Pytree", "assume_p", "modular_vmap", "stage"}

Tagged(v) == [t |-> "enumerated", v |-> v]

\* VariableEliminationInterpreter.eval_jaxpr_ve: assume writes its support,
\* tagged (the support function is called unasserted); an equation reading a tagged value is mapped over rebind, called as
\* rebind(primitive, *args, **params, **inner_params) against the signature
\* rebind(primitive, inner_params, params, *args); an equation reading none
\* is bound as it is.  No score is collected.
RECURSIVE eval_jaxpr_ve(_, _, _)
eval_jaxpr_ve(eqns, i, env) ==
    IF i > Len(eqns) THEN [t |-> "ok", env |-> env]
    ELSE LET e == eqns[i]
             ins == {e.x, e.y} \ {0}
         IN  IF e.k = "assume"
             THEN IF e.d \notin supported
                  THEN Exc("TypeError")    \* inner_params["support"] is None
                  ELSE eval_jaxpr_ve(eqns, i + 1,
                                     Append(env, Tagged(Support(e.d, 0))))
             ELSE IF \E v \in ins : env[v].t = "enumerated"
             THEN Exc("TypeError")
             ELSE eval_jaxpr_ve(eqns, i + 1, Append(env, EvalEqn(e, Lane(env, Fin(0))).env[Len(env) + 1]))

Untag(v) == IF v.t = "enumerated" THEN v.v ELSE v

RECURSIVE UntagChoices(_, _)
UntagChoices(x, env) ==
    [ad \in Addrs |->
        IF x[ad] = Absent THEN Absent
        ELSE IF x[ad].t = "val" THEN Untag(env[x[ad].v])
        ELSE Dict(UntagChoices(x[ad].m, env))]

\* ve(f)(*args) for f = the lowered program
VERun(cons, a, n) ==
    LET g == Lowered(cons, n)
    IN  IF g.t = "exc" THEN Exc(g.e)
        ELSE LET r == eval_jaxpr_ve(g.eqns, 1, <<Leaf(a)>>)
             IN  IF r.t = "exc" THEN r
                 ELSE [t |-> "ve", choices |-> UntagChoices(g.x, r.env),
                       score |-> Absent, retval |-> Untag(r.env[g.acc])]

\* ---- operations ----

\* m = P.project(args, constraint)
Project ==
    /\ estatus = "idle"
    /\ \E c \in {Absent} \cup OuterChoices(prog.body, prog.inner) :
          constraint' = FnProject(c)
    /\ estatus' = "projected"
    /\ UNCHANGED <<prog, arg0, handler_stack, global_counter, egraph, epc,
                   lanes, enum_out, ve_out, enum_frame>>

\* m.enum(args) = enum(m.lower_enum(args))(*args): collect(lowered) is staged,
\* which runs the lowering; the interpreter then starts on the first equation
\* with one lane
EnumCall ==
    /\ estatus = "projected"
    /\ LET g == Lowered(constraint, global_counter)
       IN  /\ global_counter' = g.n
           /\ IF g.t = "exc"
              THEN /\ estatus' = "raised"
                   /\ enum_out' = Exc(g.e)
                   /\ handler_stack' =
                        IF g.e = "HostException"
                        THEN Append(handler_stack, Handler("Stage", Absent, Absent))
                        ELSE handler_stack
                   /\ UNCHANGED <<egraph, epc, lanes>>
              ELSE /\ estatus' = "running"
                   /\ egraph' = [eqns |-> g.eqns, x |-> g.x, ret |-> g.acc]
                   /\ epc' = 1
                   /\ lanes' = <<Lane(<<Leaf(arg0)>>, Fin(0))>>
                   /\ UNCHANGED <<enum_out, handler_stack>>
    /\ UNCHANGED <<prog, arg0, constraint, ve_out, enum_frame>>

\* eval_jaxpr_loop at an assume_p equation with the assertion on the support
\* function left out
EnumAssumeUnasserted ==
    /\ estatus = "running"
    /\ epc <= Len(egraph.eqns)
    /\ egraph.eqns[epc].k = "assume"
    /\ lanes' = FanOut(lanes, Support(egraph.eqns[epc].d, 0))
    /\ epc' = epc + 1
    /\ UNCHANGED <<prog, arg0, handler_stack, global_counter, constraint,
                   estatus, egraph, enum_out, ve_out, enum_frame>>

\* eval_jaxpr_enum.eval_jaxpr_loop at an assume_p equation: the support
\* function is asserted, and the continuation over the remaining equations is
\* mapped over the support
EnumAssume ==
    /\ estatus = "running"
    /\ epc <= Len(egraph.eqns)
    /\ egraph.eqns[epc].k = "assume"
    /\ IF egraph.eqns[epc].d \in supported
       THEN /\ lanes' = FanOut(lanes, Support(egraph.eqns[epc].d, 0))
            /\ epc' = epc + 1
            /\ UNCHANGED <<estatus, enum_out>>
       ELSE \* assert support_fn
            /\ estatus' = "raised"
            /\ enum_out' = Exc("AssertionError")
            /\ UNCHANGED <<lanes, epc>>
    /\ UNCHANGED <<prog, arg0, handler_stack, global_counter, constraint,
                   egraph, ve_out, enum_frame>>

\* eval_jaxpr_loop at any other equation: rebind and go on
EnumOther ==
    /\ estatus = "running"
    /\ epc <= Len(egraph.eqns)
    /\ egraph.eqns[epc].k # "assume"
    /\ lanes' = [i \in 1 .. Len(lanes) |-> EvalEqn(egraph.eqns[epc], lanes[i])]
    /\ epc' = epc + 1
    /\ UNCHANGED <<prog, arg0, handler_stack, global_counter, constraint,
                   estatus, egraph, enum_out, ve_out, enum_frame>>

\* the equation list is exhausted: the outputs of every lane are read
EnumReturn ==
    /\ estatus = "running"
    /\ epc > Len(egraph.eqns)
    /\ estatus' = "done"
    /\ enum_out' =
         [t |-> "enum",
          scores  |-> [i \in 1 .. Len(lanes) |-> lanes[i].score],
          choices |-> [i \in 1 .. Len(lanes) |->
                          Dict(ResolveChoices(egraph.x, lanes[i].env))],
          retvals |-> [i \in 1 .. Len(lanes) |-> Val(lanes[i].env, egraph.ret)]]
    /\ UNCHANGED <<prog, arg0, handler_stack, global_counter, constraint,
                   egraph, epc, lanes, ve_out, enum_frame>>

\* from genjax.ve import ve; ve(m.lower_enum(args))(*args)
VECall ==
    /\ estatus \in {"projected", "done", "raised"}
    /\ ve_out = Absent
    /\ IF VEImports \subseteq CoreDefines
       THEN LET g == Lowered(constraint, global_counter)
            IN  /\ ve_out' = VERun(constraint, arg0, global_counter)
                /\ global_counter' = g.n
       ELSE /\ ve_out' = Exc("ImportError")
            /\ UNCHANGED global_counter
    /\ UNCHANGED <<prog, arg0, handler_stack, constraint, estatus, egraph, epc,
                   lanes, enum_out, enum_frame>>

\* ---- generate on a reflective measure ----

\* RMDistribution.generate returning no weight for the constrained value
RMDistGenerateUnweighted(d, a, c) ==
    LET p == logpdf(d, c, a)
    IN  [tr |-> Trace(d, a, Leaf(c), c, FNeg(p)), w |-> Fin(0)]

\* RMDistribution.generate: the constrained value, scored by assess
RMDistGenerate(d, a, c) ==
    LET p == logpdf(d, c, a)
    IN  [tr |-> Trace(d, a, Leaf(c), c, FNeg(p)), w |-> p]

\* RMFn.generate: stage the function, then RMFn.eval_jaxpr_generate over its
\* equations: at a trace site the callee is projected on x[addr] (or None)
\* and generated; its trace is stored at addr and its score and weight are
\* added.  sigma holds what the samplers of the unconstrained sites return,
\* in the order the sites are met.
\* h = [t, acc, pos, score, weight, cm, n, valid]
RECURSIVE RMFnGenerate(_, _, _, _, _, _)
RECURSIVE GenerateFrom(_, _, _, _, _)
RMFnGenerate(fn, cons, a, sigma, pos, n) ==
    LET st == StageRun(fn, 1, n)
    IN  IF st.raised THEN LowerExc("HostException", st.n)
        ELSE GenerateFrom(fn, 1, cons, sigma,
                          [t |-> "ok", acc |-> a, args |-> a, pos |-> pos,
                           score |-> Fin(0), weight |-> Fin(0), cm |-> EmptyMap,
                           n |-> st.n, valid |-> TRUE])

GenerateFrom(fn, i, cons, sigma, h) ==
    IF i > Len(Body(fn)) THEN h
    ELSE LET s == Body(fn)[i]
         IN  IF s.k = "raise" THEN LowerExc("HostException", h.n)
             ELSE IF cons.t # "map" THEN LowerExc("TypeError", h.n)
             ELSE LET sub == cons.m[s.addr]
                  IN  IF s.callee \in DistNames
                      THEN IF sub = Absent
                           THEN LET v == sigma[h.pos]
                                    t == DistSimulate(s.callee, h.acc, v)
                                IN  GenerateFrom(fn, i + 1, cons, sigma,
                                       [h EXCEPT !.acc = Combine(h.acc, v),
                                                 !.pos = h.pos + 1,
                                                 !.score = FAdd(h.score, get_score(t)),
                                                 !.cm = [h.cm EXCEPT ![s.addr] = t],
                                                 !.n = h.n + 1,
                                                 !.valid = h.valid /\
                                                    v \in Sampleable(s.callee, h.acc)])
                           ELSE IF sub.t # "val" THEN LowerExc("TypeError", h.n)
                           ELSE LET g == RMDistGenerate(s.callee, h.acc, sub.v)
                                IN  GenerateFrom(fn, i + 1, cons, sigma,
                                       [h EXCEPT !.acc = Combine(h.acc, sub.v),
                                                 !.score = FAdd(h.score, get_score(g.tr)),
                                                 !.weight = FAdd(h.weight, g.w),
                                                 !.cm = [h.cm EXCEPT ![s.addr] = g.tr]])
                      ELSE LET r == RMFnGenerate("inner", FnProject(sub), h.acc,
                                                 sigma, h.pos, h.n)
                           IN  IF r.t = "exc" THEN r
                               ELSE GenerateFrom(fn, i + 1, cons, sigma,
                                      [h EXCEPT
                                         !.acc = Combine(h.acc, r.acc),
                                         !.pos = r.pos,
                                         !.score = FAdd(h.score, r.score),
                                         !.weight = FAdd(h.weight, r.weight),
                                         !.cm = [h.cm EXCEPT ![s.addr] =
                                                   Trace("inner", r.args, Dict(r.cm),
                                                         r.acc, r.score)],
                                         !.n = r.n,
                                         !.valid = h.valid /\ r.valid])

\* tr, w = m.generate(args)
Generate ==
    /\ estatus = "projected"
    /\ gen_out = Absent
    /\ \E sigma \in [1 .. Len(prog.body) -> Values] :
          LET r == RMFnGenerate("outer", constraint, arg0, sigma, 1, global_counter)
          IN  /\ r.t = "ok" => r.valid
              /\ global_counter' = r.n
              /\ IF r.t = "exc"
                 THEN /\ gen_out' = Exc(r.e)
                      /\ handler_stack' =
                           IF r.e = "HostException"
                           THEN Append(handler_stack, Handler("Stage", Absent, Absent))
                           ELSE handler_stack
                 ELSE /\ gen_out' = [t |-> "ok",
                                     tr |-> Trace("outer", arg0, Dict(r.cm), r.acc,
                                                  r.score),
                                     w |-> r.weight]
                      /\ UNCHANGED handler_stack
    /\ UNCHANGED <<prog, arg0, constraint, estatus, egraph, epc, lanes, enum_out,
                   ve_out, supported, frames, status, call, tr, res, ncalls,
                   seed_vars, sel_vars, vmap_vars, disc_vars, env_vars,
                   collect_vars, blanket_vars, loop_vars, node_vars,
                   heap_vars, proj_vars>>

EnumProgs ==
    {[body |-> b, inner |-> i] : b \in Bodies, i \in InnerBodies}

InitEnum ==
    /\ prog \in EnumProgs
    /\ arg0 \in Args
    /\ handler_stack = <<>>
    /\ frames = <<>>
    /\ status = "idle"
    /\ call = [op |-> "none", x |-> Absent, stack0 |-> <<>>]
    /\ tr = Absent
    /\ res = Absent
    /\ ncalls = 0
    /\ global_counter = 0
    /\ SeedIdle
    /\ constraint = Absent
    /\ estatus = "idle"
    /\ egraph = Absent
    /\ epc = 0
    /\ lanes = <<>>
    /\ enum_out = Absent
    /\ ve_out = Absent
    /\ gen_out = Absent
    /\ supported \in SUBSET DistNames
    /\ SelIdle
    /\ VmapIdle
    /\ DiscIdle
    /\ EnvIdle
    /\ CollectIdle
    /\ BlanketIdle
    /\ LoopIdle
    /\ NodeIdle
    /\ HeapIdle
    /\ ProjIdle

NextEnum ==
    \/ Project
    \/ EnumCall
    \/ EnumAssume
    \/ EnumOther
    \/ EnumReturn
    \/ VECall
    \/ Generate

SpecEnum == InitEnum /\ [][NextEnum]_vars

-----------------------------------------------------------------------------
(* Properties of enumeration.                                               *)

\* the equations of the staged program that are assume nodes, in order
AssumeIdx(eqns) ==
    SelectSeq([j \in 1 .. Len(eqns) |-> j], LAMBDA j : eqns[j].k = "assume")

\* the assignment one lane stands for: the value of every assume node
Assignment(eqns, l) ==
    [p \in 1 .. Len(AssumeIdx(eqns)) |-> Val(l.env, AssumeIdx(eqns)[p] + 1)]

SeqRange(q) == {q[i] : i \in 1 .. Len(q)}

\* S1 x ... x Sk
SupportProduct(eqns) ==
    {f \in [1 .. Len(AssumeIdx(eqns)) -> Values] :
        \A p \in 1 .. Len(AssumeIdx(eqns)) :
            f[p] \in SeqRange(Support(eqns[AssumeIdx(eqns)[p]].d, 0))}

\* the program run once, straight through, under one assignment
RECURSIVE RunUnder(_, _, _, _, _)
RunUnder(eqns, i, sigma, pos, l) ==
    IF i > Len(eqns) THEN l
    ELSE IF eqns[i].k = "assume"
         THEN RunUnder(eqns, i + 1, sigma, pos + 1,
                       Lane(Append(l.env, Leaf(sigma[pos])), l.score))
         ELSE RunUnder(eqns, i + 1, sigma, pos, EvalEqn(eqns[i], l))

RECURSIVE Pow2(_)
Pow2(n) == IF n <= 0 THEN 1 ELSE 2 * Pow2(n - 1)

\* the probability a score stands for, in units of 4^-m
ScoreNum(score, m) == IF score.k = "-inf" THEN 0 ELSE Pow2(2 * m + score.n)

\* The host function run under one assignment of its unconstrained sites (in
\* the order they are met): the product of the masses of every site, in
\* quarters.  [acc, pos, num, m: sites met]
RECURSIVE HostJoint(_, _, _, _, _)
HostJoint(fn, i, cons, sigma, h) ==
    IF i > Len(Body(fn)) THEN h
    ELSE LET s == Body(fn)[i]
             sub == cons.m[s.addr]
         IN  IF s.callee \in DistNames
             THEN LET v == IF sub = Absent THEN sigma[h.pos] ELSE sub.v
                  IN  HostJoint(fn, i + 1, cons, sigma,
                         [acc |-> Combine(h.acc, v),
                          pos |-> IF sub = Absent THEN h.pos + 1 ELSE h.pos,
                          num |-> h.num * ProbNum(s.callee, v, h.acc),
                          m |-> h.m + 1])
             ELSE LET r == HostJoint("inner", 1, FnProject(sub), sigma, h)
                  IN  HostJoint(fn, i + 1, cons, sigma,
                                [r EXCEPT !.acc = Combine(h.acc, r.acc)])

JointOf(sigma) ==
    HostJoint("outer", 1, constraint, sigma,
              [acc |-> arg0, pos |-> 1, num |-> 1, m |-> 0])

\* the joint mass summed over a set of assignments
RECURSIVE SumJoint(_)
SumJoint(S) ==
    IF S = {} THEN 0
    ELSE LET e == CHOOSE x \in S : TRUE IN JointOf(e).num + SumJoint(S \ {e})

\* the probabilities of the first i scores enum returned, summed
RECURSIVE SumScores(_, _)
SumScores(i, m) ==
    IF i = 0 THEN 0 ELSE ScoreNum(enum_out.scores[i], m) + SumScores(i - 1, m)

\* C9: when enum has returned on the lowering of P.project(args, constraint),
\* the score at every index is the log of the product, over every site of the
\* host program, of the mass of the site's value (enumerated or constrained)
\* under the site's distribution; it is -inf exactly when that product is zero;
\* and the probabilities of all indices add up to the sum of that product over
\* all assignments of the unconstrained sites.
EnumScoresJoint ==
    estatus = "done" =>
        LET eqns == egraph.eqns
            n == Len(enum_out.scores)
            k == Len(AssumeIdx(eqns))
            LaneJoint(i) == JointOf(Assignment(eqns, lanes[i]))
            LaneNum(i) == ScoreNum(enum_out.scores[i], LaneJoint(i).m)
        IN  /\ \A i \in 1 .. n :
                  /\ enum_out.scores[i].k \in {"fin", "-inf"}
                  /\ LaneNum(i) = LaneJoint(i).num
                  /\ (enum_out.scores[i] = NegInf) <=> (LaneJoint(i).num = 0)
            /\ SumScores(n, LaneJoint(1).m) = SumJoint([1 .. k -> Values])

\* enum has returned on a measure with a constrained site and an enumerated
\* site, where one combination has no mass and another has
EnumConstrainedWitness ==
    /\ estatus = "done"
    /\ \E j \in 1 .. Len(egraph.eqns) : egraph.eqns[j].k = "const"
    /\ Len(AssumeIdx(egraph.eqns)) >= 1
    /\ \E i \in 1 .. Len(enum_out.scores) : enum_out.scores[i] = NegInf
    /\ \E i \in 1 .. Len(enum_out.scores) :
          enum_out.scores[i].k = "fin" /\ enum_out.scores[i].n < 0

\* ---- tagged broadcast against enumeration ----

EnumCombos(o) ==
    {<<o.choices[i], o.scores[i], o.retvals[i]>> : i \in 1 .. Len(o.scores)}

\* C10: once enum and ve have both been applied to the lowered program, ve
\* has returned, and the combinations it returned are the ones
\* enum returned.
VEYieldsEnumCombinations ==
    (estatus = "done" /\ ve_out # Absent) =>
        /\ ve_out.t = "ve"
        /\ {<<Dict(ve_out.choices), ve_out.score, ve_out.retval.v>>}
              = EnumCombos(enum_out)

\* the interpreter of ve.py taken by itself, on the same program: it returns
\* wherever enum returned
VEInterpreterReturns ==
    estatus = "done" => VERun(constraint, arg0, 0).t = "ve"

\* ... which it does where no site is enumerated, without a score
VEInterpreterReturnsUnenumerated ==
    (estatus = "done" /\ Len(AssumeIdx(egraph.eqns)) = 0) =>
        LET o == VERun(constraint, arg0, 0)
        IN  /\ o.t = "ve"
            /\ o.score = Absent
            /\ Dict(o.choices) = enum_out.choices[1]
            /\ o.retval.v = enum_out.retvals[1]

-----------------------------------------------------------------------------
(* Selections: the predicate algebra over addresses.                       *)

MaxSelOps == 3     \* constructors and combinators applied to one selection
MaxSelDepth == 3   \* residuals taken of one selection

\* a string address in no mapping, and a tuple address: equal to no string
SelAddrs == {"a", "b", "(a, b)"}

AllSel == [k |-> "all"]
NoneSel == [k |-> "none"]
StrSel(s) == [k |-> "str", lit |-> s]
DictSel(d) == [k |-> "dict", d |-> d]
ComplSel(s) == [k |-> "compl", of |-> s]
InSel(s1, s2) == [k |-> "in", s1 |-> s1, s2 |-> s2]
S(s) == [k |-> "S", s |-> s]

\* S.__invert__ and S.__xor__
Invert(s) == S(ComplSel(s))
Xor(s, other) == S(InSel(s, other))

\* ComplSel.match with the residual left as it came
MatchComplKeepsRest(r) == [check |-> ~r.check, rest |-> r.rest]

\* ComplSel.match, given what self.s.match(addr) returned
MatchCompl(r) == [check |-> ~r.check, rest |-> ComplSel(r.rest)]

\* InSel.match, given what the two sides returned
MatchIn(r1, r2) == [check |-> r1.check /\ r2.check, rest |-> InSel(r1.rest, r2.rest)]

\* match of every variant; S.match wraps a residual that is not yet an S
RECURSIVE Match(_, _)
Match(s, addr) ==
    IF s.k = "all" THEN [check |-> TRUE, rest |-> s]
    ELSE IF s.k = "none" THEN [check |-> FALSE, rest |-> s]
    ELSE IF s.k = "str"
         THEN [check |-> addr = s.lit,
               rest |-> IF addr = s.lit THEN AllSel ELSE NoneSel]
    ELSE IF s.k = "dict"
         THEN LET check == addr \in DOMAIN s.d /\ s.d[addr] # Absent
              IN  [check |-> check, rest |-> IF check THEN s.d[addr] ELSE NoneSel]
    ELSE IF s.k = "compl" THEN MatchCompl(Match(s.of, addr))
    ELSE IF s.k = "in" THEN MatchIn(Match(s.s1, addr), Match(s.s2, addr))
    ELSE LET r == Match(s.s, addr)
         IN  [check |-> r.check,
              rest |-> IF r.rest.k = "S" THEN r.rest ELSE S(r.rest)]

\* the sub-selections a mapping holds
SubSels == {S(AllSel), S(NoneSel), S(StrSel("b")), Invert(S(AllSel)),
            S(DictSel([x \in {"a", "b"} |-> IF x = "b" THEN S(AllSel) ELSE Absent]))}

Mappings == [{"a", "b"} -> {Absent} \cup SubSels]

\* sel(), sel(None), sel(()), sel(string), sel(mapping)
sel ==
    {S(NoneSel), S(AllSel)} \cup {S(StrSel(x)) : x \in {"a", "b"}}
        \cup {S(DictSel(d)) : d \in Mappings}

\* what the combinators are applied with
Operands == {S(AllSel), S(StrSel("a")), Invert(S(AllSel))}

\* s = sel(...)
SelBuild ==
    /\ sel_ops < MaxSelOps
    /\ sel_cur' \in sel
    /\ sel_ops' = sel_ops + 1
    /\ sel_depth' = 0
    /\ sel_last' = [addr |-> "-", check |-> FALSE]
    /\ UNCHANGED sel_frame

\* s = ~s
SelInvert ==
    /\ sel_ops < MaxSelOps
    /\ sel_cur' = Invert(sel_cur)
    /\ sel_ops' = sel_ops + 1
    /\ UNCHANGED <<sel_last, sel_depth, sel_frame>>

\* s = s ^ other
SelXor ==
    /\ sel_ops < MaxSelOps
    /\ \E other \in Operands : sel_cur' = Xor(sel_cur, other)
    /\ sel_ops' = sel_ops + 1
    /\ UNCHANGED <<sel_last, sel_depth, sel_frame>>

\* check, s = match(addr, s)
SelMatch ==
    /\ sel_depth < MaxSelDepth
    /\ \E addr \in SelAddrs :
          LET r == Match(sel_cur, addr)
          IN  /\ sel_cur' = r.rest
              /\ sel_last' = [addr |-> addr, check |-> r.check]
    /\ sel_depth' = sel_depth + 1
    /\ UNCHANGED <<sel_ops, sel_frame>>

InitSel ==
    /\ GFIIdle
    /\ global_counter = 0
    /\ SeedIdle
    /\ EnumIdle
    /\ SelIdle
    /\ VmapIdle
    /\ DiscIdle
    /\ EnvIdle
    /\ CollectIdle
    /\ BlanketIdle
    /\ LoopIdle
    /\ NodeIdle
    /\ HeapIdle
    /\ ProjIdle

NextSel ==
    \/ SelBuild
    \/ SelInvert
    \/ SelXor
    \/ SelMatch

SpecSel == InitSel /\ [][NextSel]_vars

\* a well-formed selection: an S around a variant whose parts are selections
RECURSIVE IsSel(_)
IsSel(s) ==
    /\ s.k = "S"
    /\ LET v == s.s
       IN  \/ v.k \in {"all", "none"}
           \/ v.k = "str" /\ v.lit \in STRING
           \/ v.k = "dict" /\ \A x \in DOMAIN v.d : v.d[x] = Absent \/ IsSel(v.d[x])
           \/ v.k = "compl" /\ IsSel(v.of)
           \/ v.k = "in" /\ IsSel(v.s1) /\ IsSel(v.s2)

\* C11: The selection at hand -- built by sel, ~ and intersection, or a residual
\* of such a selection at any depth -- is a selection, and for every address
\* match returns a boolean and a residual that is a selection; on sel(()) match
\* returns TRUE and sel(()) again, on ~sel(()) it returns FALSE and ~sel(())
\* again.
MatchTotal ==
    /\ IsSel(sel_cur)
    /\ \A addr \in SelAddrs :
          LET r == Match(sel_cur, addr)
          IN  /\ r.check \in BOOLEAN
              /\ IsSel(r.rest)
              /\ sel_cur = S(AllSel) => r.check /\ r.rest = S(AllSel)
              /\ sel_cur = Invert(S(AllSel)) =>
                    ~r.check /\ r.rest = Invert(S(AllSel))

\* the residual of a residual of ~sel(()) has just refused an address
ComplAllResidualWitness ==
    /\ sel_depth >= 2
    /\ sel_cur = Invert(S(AllSel))
    /\ sel_last.check = FALSE
    /\ sel_last.addr = "a"

-----------------------------------------------------------------------------
(* Properties of the top-level trace call.                                 *)

\* C12: a trace(addr, dist, args) called while the handler stack was empty has
\* returned the value of a simulate of dist, has raised nothing, and the
\* handler stack is empty afterwards.
TraceOutsideHandlerSimulates ==
    (call.op = "trace" /\ call.stack0 = <<>>) =>
        /\ status = "returned"
        /\ res.t = "ok"
        /\ res.r \in Values
        /\ handler_stack = <<>>

-----------------------------------------------------------------------------
(* Properties of addresses within one call.                                *)

\* the scores of the sub-traces a trace stores in its choice map, summed
RECURSIVE StoredScore(_, _)
StoredScore(t, addrs) ==
    IF addrs = {} THEN Fin(0)
    ELSE LET ad == CHOOSE x \in addrs : TRUE
             sub == t.choices.m[ad]
         IN  FAdd(IF sub = Absent THEN Fin(0) ELSE get_score(sub),
                  StoredScore(t, addrs \ {ad}))

\* C13: a simulate, assess or update call that has returned ran a host
\* function that recorded no address twice, and the trace it returned has a
\* score that is the sum of the scores of the sub-traces in its choice map.
DuplicateAddressRaises ==
    (status = "returned" /\ call.op \in {"simulate", "assess", "update"}) =>
        /\ DistinctAddrs(prog.body)
        /\ res.tr # Absent => get_score(res.tr) = StoredScore(res.tr, Addrs)

\* where no address is recorded twice the returned trace is as the spec has it
ScoreOfStoredSubtraces ==
    (status = "returned" /\ call.op \in {"simulate", "update"}
        /\ DistinctAddrs(prog.body)) =>
        get_score(res.tr) = StoredScore(res.tr, Addrs)

-----------------------------------------------------------------------------
(* Properties of generate on a reflective measure.                         *)

\* C14: the trace m.generate(args) returned for m = P.project(args, c) has
\* the score -w, w being the density P.assess(args, choices of the trace)
\* returns.
GenerateScoreIsAssess ==
    (gen_out # Absent /\ gen_out.t = "ok") =>
        LET a == FnAssess("outer", arg0, get_choices(gen_out.tr))
        IN  a.t = "ok" /\ get_score(gen_out.tr) = FNeg(a.w)

\* C14 for host functions that trace every address once
GenerateScoreIsAssessDistinctAddrs ==
    (gen_out # Absent /\ gen_out.t = "ok" /\ DistinctAddrs(prog.body)) =>
        LET a == FnAssess("outer", arg0, get_choices(gen_out.tr))
        IN  /\ a.t = "ok" /\ get_score(gen_out.tr) = FNeg(a.w)
            /\ a.r = gen_out.tr.retval
            /\ \A ad \in Addrs :
                  (constraint.m[ad] # Absent /\ constraint.m[ad].t = "val") =>
                      get_choices(get_choices(gen_out.tr).m[ad]) = constraint.m[ad]

-----------------------------------------------------------------------------
(* modular_vmap of an assume node.  An array is the sequence of its axes;   *)
(* an axis has a size and the modular_vmap level whose lanes lie along it  *)
(* (0: an axis of the event itself).  Every element of the array the       *)
(* sampler returns is a draw of its own.                                    *)

MaxLevels == 2     \* nested modular_vmaps around the node

AxisSizes == 2 .. 3

\* batching.not_mapped
NotMapped == 0 - 1

Axis(size, lane) == [size |-> size, lane |-> lane]

\* the arguments the node is called with under no vmap
EventArgs == {<<>>, <<Axis(2, 0)>>}

InsertAt(q, i, x) == SubSeq(q, 1, i) \o <<x>> \o SubSeq(q, i + 1, Len(q))
RemoveAt(q, i) == SubSeq(q, 1, i - 1) \o SubSeq(q, i + 1, Len(q))

\* static_dim_length(batch_axes, vector_args): the size of the mapped axis of
\* the first mapped argument, None when there is none
static_dim_length(batch_axis, arg) ==
    IF batch_axis = NotMapped THEN NotMapped ELSE arg[batch_axis + 1].size

\* assume_binder.batch under ctx = "modular_vmap": the node is bound again with
\* batch_shape = outer_batch_dim + batch_shape on the arguments as they are;
\* [batch_shape, out_axis]
AssumeBatch(batch_shape, arg, batch_axis, axis_size, level) ==
    LET n == static_dim_length(batch_axis, arg)
        outer_batch_dim == IF n # NotMapped THEN <<>>
                           ELSE IF axis_size # 0 THEN <<Axis(axis_size, level)>>
                           ELSE <<>>
    IN  [batch_shape |-> outer_batch_dim \o batch_shape,
         out_axis |-> IF (n # NotMapped /\ n # 0) \/ axis_size # 0 THEN 0
                      ELSE NotMapped]

\* keyful_sampler(key, *args, sample_shape=batch_shape): sample_shape, then the
\* shape of the parameters
SampleShape(batch_shape, arg) == batch_shape \o arg

VmapLevel(axis_size, batched, ax, r) ==
    [axis_size |-> axis_size, batched |-> batched, in_axis |-> ax,
     out_axis |-> r.out_axis]

\* one more modular_vmap(..., axis_size = N) around the node, none of whose
\* arguments it maps
VmapUnbatched ==
    /\ Len(vm_levels) < MaxLevels
    /\ vm_out = Absent
    /\ \E N \in AxisSizes :
          LET r == AssumeBatch(vm_batch_shape, vm_arg, NotMapped, N,
                               Len(vm_levels) + 1)
          IN  /\ vm_batch_shape' = r.batch_shape
              /\ vm_levels' = Append(vm_levels, VmapLevel(N, FALSE, NotMapped, r))
    /\ UNCHANGED <<vm_arg, vm_out, vmap_frame>>

\* one more modular_vmap(..., in_axes = ax) around the node, mapping its
\* argument along axis ax
VmapBatched ==
    /\ Len(vm_levels) < MaxLevels
    /\ vm_out = Absent
    /\ \E N \in AxisSizes, ax \in 0 .. Len(vm_arg) :
          LET arg == InsertAt(vm_arg, ax, Axis(N, Len(vm_levels) + 1))
              r == AssumeBatch(vm_batch_shape, arg, ax, N, Len(vm_levels) + 1)
          IN  /\ vm_arg' = arg
              /\ vm_batch_shape' = r.batch_shape
              /\ vm_levels' = Append(vm_levels, VmapLevel(N, TRUE, ax, r))
    /\ UNCHANGED <<vm_out, vmap_frame>>

\* the node runs: its sampler is invoked once
VmapSample ==
    /\ vm_out = Absent
    /\ vm_out' = [t |-> "array", axes |-> SampleShape(vm_batch_shape, vm_arg)]
    /\ UNCHANGED <<vm_batch_shape, vm_arg, vm_levels, vmap_frame>>

InitVmap ==
    /\ GFIIdle
    /\ global_counter = 0
    /\ SeedIdle
    /\ EnumIdle
    /\ SelIdle
    /\ DiscIdle
    /\ EnvIdle
    /\ CollectIdle
    /\ BlanketIdle
    /\ LoopIdle
    /\ NodeIdle
    /\ HeapIdle
    /\ ProjIdle
    /\ vm_batch_shape = <<>>
    /\ vm_arg \in EventArgs
    /\ vm_levels = <<>>
    /\ vm_out = Absent

NextVmap ==
    \/ VmapUnbatched
    \/ VmapBatched
    \/ VmapSample

SpecVmap == InitVmap /\ [][NextVmap]_vars

\* Level l and the levels inside it find their lanes where they declared
\* them: the output of level l is marked as mapped, the axis it marks has the
\* size of the level and holds the level's lanes, and so on for the array one
\* lane of level l holds.
RECURSIVE LanesOnDeclaredAxes(_, _)
LanesOnDeclaredAxes(axes, l) ==
    IF l = 0 THEN TRUE
    ELSE LET d == vm_levels[l].out_axis
         IN  /\ d # NotMapped
             /\ d < Len(axes)
             /\ axes[d + 1].lane = l
             /\ axes[d + 1].size = vm_levels[l].axis_size
             /\ LanesOnDeclaredAxes(RemoveAt(axes, d + 1), l - 1)

\* C15: once the sampler of an assume node under modular_vmaps has run, every
\* level of axis size N finds N lanes, each a draw of its own, along the axis
\* the batch rule marked for it (axis 0).
VmapLanesIndependent ==
    vm_out # Absent =>
        /\ \A l \in 1 .. Len(vm_levels) : vm_levels[l].out_axis = 0
        /\ LanesOnDeclaredAxes(vm_out.axes, Len(vm_levels))

\* the levels that map the argument map it along axis 0 and lie inside the
\* levels that do not
MappedInsideAlongZero ==
    \A l \in 1 .. Len(vm_levels) :
        vm_levels[l].batched =>
            /\ vm_levels[l].in_axis = 0
            /\ \A m \in 1 .. l - 1 : vm_levels[m].batched

\* C15 where the argument is mapped along axis 0, innermost
VmapLanesIndependentAlongZero ==
    (vm_out # Absent /\ MappedInsideAlongZero) =>
        /\ \A l \in 1 .. Len(vm_levels) : vm_levels[l].out_axis = 0
        /\ LanesOnDeclaredAxes(vm_out.axes, Len(vm_levels))

\* the sampler is invoked as the batch rule has it: with the batch shape
\* extended by a leading N where the level maps no argument, on the mapped
\* argument where it maps one
VmapSamplerInvocation ==
    \A l \in 1 .. Len(vm_levels) :
        Cardinality({i \in 1 .. Len(vm_batch_shape) : vm_batch_shape[i].lane = l})
            = (IF vm_levels[l].batched THEN 0 ELSE 1)

-----------------------------------------------------------------------------
(* enum at a distribution without a support function.                       *)

\* the interpreter stands at an assume equation whose sampler was built with
\* support=None
AtUnsupportedAssume ==
    /\ estatus = "running"
    /\ epc <= Len(egraph.eqns)
    /\ egraph.eqns[epc].k = "assume"
    /\ egraph.eqns[epc].d \notin supported

\* C16: when enum reaches an assume node whose sampler has no support
\* function it aborts with the error of the missing support: the continuation
\* of the node is not invoked (no lane is added, the node is not passed), and
\* the caller receives the error and no scores or choices.
EnumUnsupportedAborts ==
    [][AtUnsupportedAssume =>
          /\ estatus' = "raised"
          /\ enum_out' = Exc("AssertionError")
          /\ lanes' = lanes
          /\ epc' = epc]_vars

\* the abort happened inside the continuation of an earlier node, mapped over
\* its support
EnumAbortedInsideWitness ==
    /\ estatus = "raised"
    /\ enum_out = Exc("AssertionError")
    /\ Len(lanes) = 2
    /\ epc > 1

\* enum returns scores and choices only where every enumerated site has a
\* support function
EnumReturnsOnlySupported ==
    (enum_out # Absent /\ enum_out.t = "enum") =>
        \A j \in 1 .. Len(egraph.eqns) :
            egraph.eqns[j].k = "assume" => egraph.eqns[j].d \in supported

-----------------------------------------------------------------------------
(* discretize: the rewrite of the sites a selection matches.                *)

\* the address a distribution matches its selection at
EmptyAddr == "()"

\* the selections discretize is called with
DiscSels ==
    {S(AllSel), S(NoneSel), S(StrSel("a")), S(StrSel("b")),
     Invert(S(StrSel("a"))),
     S(DictSel([x \in {"a", "b"} |-> IF x = "b" THEN S(StrSel("a")) ELSE Absent]))}

\* Distribution.discretize(args, sel)
DistDiscretizeResult(d, s) ==
    IF Match(s, EmptyAddr).check
    THEN IF d \in discretization
         THEN [t |-> "dist", d |-> d, discretized |-> TRUE]
         ELSE Exc("AssertionError")
    ELSE [t |-> "dist", d |-> d, discretized |-> FALSE]

\* Fn.discretize(args, sel): Fn(new_source); new_source is not run
FnDiscretizeResult(fn, s) == [t |-> "Fn", source |-> fn, sel |-> s]

\* Fn.eval_jaxpr_discretize(sel, ...) from equation i of the staged source of
\* fn, when new_source is run: at every trace site the callee is discretized
\* with the residual of the selection at the address, and traced in place
RECURSIVE eval_jaxpr_discretize(_, _, _)
eval_jaxpr_discretize(s, fn, i) ==
    IF i > Len(Body(fn)) THEN [t |-> "ok"]
    ELSE LET st == Body(fn)[i]
             rest == Match(s, st.addr).rest
             r == IF st.callee \in DistNames
                  THEN DistDiscretizeResult(st.callee, rest)
                  ELSE eval_jaxpr_discretize(rest, st.callee, 1)
         IN  IF r.t = "exc" THEN r ELSE eval_jaxpr_discretize(s, fn, i + 1)

\* P.discretize(args, sel) on a function
FnDiscretize ==
    /\ dz_call = Absent
    /\ \E s \in DiscSels :
          /\ dz_call' = [target |-> "outer", sel |-> s]
          /\ dz_out' = FnDiscretizeResult("outer", s)
    /\ UNCHANGED <<discretization, disc_frame>>

\* d.discretize(args, sel) on a distribution
DistDiscretize ==
    /\ dz_call = Absent
    /\ \E d \in DistNames, s \in DiscSels :
          /\ dz_call' = [target |-> d, sel |-> s]
          /\ dz_out' = DistDiscretizeResult(d, s)
    /\ UNCHANGED <<discretization, disc_frame>>

\* the programs discretized: the source of a function returns
DiscProgs ==
    {[body |-> b, inner |-> i] : b \in [1 .. MaxStmts -> Stmts \ {RaiseStmt}],
                                 i \in InnerBodies}

InitDisc ==
    /\ prog \in DiscProgs
    /\ arg0 \in Args
    /\ handler_stack = <<>>
    /\ frames = <<>>
    /\ status = "idle"
    /\ call = [op |-> "none", x |-> Absent, stack0 |-> <<>>]
    /\ tr = Absent
    /\ res = Absent
    /\ ncalls = 0
    /\ global_counter = 0
    /\ SeedIdle
    /\ EnumIdle
    /\ SelIdle
    /\ VmapIdle
    /\ EnvIdle
    /\ CollectIdle
    /\ BlanketIdle
    /\ LoopIdle
    /\ NodeIdle
    /\ HeapIdle
    /\ ProjIdle
    /\ discretization \in SUBSET DistNames
    /\ dz_call = Absent
    /\ dz_out = Absent

NextDisc ==
    \/ FnDiscretize
    \/ DistDiscretize

SpecDisc == InitDisc /\ [][NextDisc]_vars

\* the selection of the call demands a discretization the program cannot
\* give: it matches an address whose distribution has none
DemandsMissing ==
    /\ dz_call # Absent
    /\ IF dz_call.target \in DistNames
       THEN DistDiscretizeResult(dz_call.target, dz_call.sel).t = "exc"
       ELSE eval_jaxpr_discretize(dz_call.sel, dz_call.target, 1).t = "exc"

\* C17: discretize(args, selection) with a selection that matches an address
\* whose distribution has no discretization raises from the call itself, and
\* returns no rewritten program.
DiscretizeRaisesAtCall ==
    DemandsMissing => dz_out = Exc("AssertionError")

\* C17 for the program that is a distribution
DistDiscretizeRaisesAtCall ==
    (DemandsMissing /\ dz_call.target \in DistNames)
        => dz_out = Exc("AssertionError")

\* discretize on a function returns a function, whatever the selection
FnDiscretizeReturns ==
    (dz_call # Absent /\ dz_call.target = "outer") => dz_out.t = "Fn"

-----------------------------------------------------------------------------
(* Environment: the cells of the variables of one interpretation pass.     *)

\* python None
PyNone == [t |-> "None"]

\* what a cell or a literal holds
Cells == {PyNone} \cup {Leaf(v) : v \in Values}

Var(n) == [k |-> "Var", count |-> n, val |-> Absent]
DropVar == [k |-> "DropVar", count |-> 0, val |-> Absent]
Literal(c) == [k |-> "Literal", count |-> 0, val |-> c]

\* the variables and literals of the graph; literals hold numbers
VarOrLiteral ==
    {Var(n) : n \in VarCounts} \cup {DropVar}
        \cup {Literal(Leaf(v)) : v \in Values}

\* dict.get(key): None for a key the dict does not have
DictGet(d, n) == IF d[n] = Absent THEN PyNone ELSE d[n]

\* Environment.get
EnvGet(e, var) == IF var.k = "Literal" THEN var.val ELSE DictGet(e, var.count)

\* Environment.read with the test `v is None` left to the dict
EnvReadByKey(e, var) ==
    IF var.k # "Literal" /\ e[var.count] = Absent
    THEN Exc("ValueError")
    ELSE [t |-> "ok", v |-> EnvGet(e, var)]

\* Environment.read
EnvRead(e, var) ==
    LET v == EnvGet(e, var)
    IN  IF v = PyNone
        THEN IF var.k = "Literal" THEN Exc("AssertionError") ELSE Exc("ValueError")
        ELSE [t |-> "ok", v |-> v]

\* Environment.__contains__
EnvContains(e, var) == var.k = "Literal" \/ e[var.count] # Absent

\* env.write(var, cell)
Write ==
    /\ ev_ops < MaxEnvOps
    /\ \E var \in VarOrLiteral, cell \in Cells :
          /\ ev_env' = IF var.k = "Var" THEN [ev_env EXCEPT ![var.count] = cell]
                       ELSE ev_env
          /\ ev_written' = IF var.k = "Literal" THEN ev_written
                           ELSE ev_written \cup {var}
          /\ ev_last' = [op |-> "write", var |-> var,
                         out |-> [t |-> "ok",
                                  v |-> IF var.k = "Literal" THEN cell
                                        ELSE IF var.k = "DropVar"
                                             THEN EnvGet(ev_env, var)
                                             ELSE cell],
                         before |-> ev_env]
    /\ ev_ops' = ev_ops + 1
    /\ UNCHANGED env_frame

\* env.read(var)
Read ==
    /\ ev_ops < MaxEnvOps
    /\ \E var \in VarOrLiteral :
          ev_last' = [op |-> "read", var |-> var, out |-> EnvRead(ev_env, var),
                      before |-> ev_env]
    /\ ev_ops' = ev_ops + 1
    /\ UNCHANGED <<ev_env, ev_written, env_frame>>

InitEnv ==
    /\ GFIIdle
    /\ global_counter = 0
    /\ SeedIdle
    /\ EnumIdle
    /\ SelIdle
    /\ VmapIdle
    /\ DiscIdle
    /\ EnvIdle
    /\ CollectIdle
    /\ BlanketIdle
    /\ LoopIdle
    /\ NodeIdle
    /\ HeapIdle
    /\ ProjIdle

NextEnv ==
    \/ Write
    \/ Read

SpecEnv == InitEnv /\ [][NextEnv]_vars

\* the last call was a read
JustRead == ev_last # Absent /\ ev_last.op = "read"

\* C18: read(v) returns the bound value exactly when v is a literal or v was
\* written earlier in the pass, whatever was written, and raises the
\* unbound-variable error otherwise; a read leaves the environment as it was.
ReadIffLiteralOrWritten ==
    JustRead =>
        /\ ev_env = ev_last.before
        /\ IF ev_last.var.k = "Literal"
           THEN ev_last.out = [t |-> "ok", v |-> ev_last.var.val]
           ELSE IF ev_last.var \in ev_written /\ ev_last.var.k = "Var"
           THEN ev_last.out = [t |-> "ok", v |-> ev_env[ev_last.var.count]]
           ELSE ev_last.out = Exc("ValueError")

\* C18 where no None was written: read agrees with the membership test
ReadIffContains ==
    (JustRead /\ \A n \in EnvKeys : ev_env[n] # PyNone) =>
        /\ ev_env = ev_last.before
        /\ ev_last.out = EnvReadByKey(ev_env, ev_last.var)
        /\ (ev_last.out.t = "ok") = EnvContains(ev_env, ev_last.var)

\* a variable stays bound to the last cell written to it; a write through a
\* drop-site stores nothing
BoundAreWritten ==
    /\ \A n \in VarCounts : ev_env[n] # Absent <=> Var(n) \in ev_written
    /\ ev_env[DropVar.count] = Absent

-----------------------------------------------------------------------------
(* collect: the score a run of a staged enumeration-language function      *)
(* gathers.                                                                 *)

MaxEqns == 3       \* equations of the staged graph

\* log_density_p: the log density of x under d(y), bound by Distribution.logpdf
ELogDensity(d, x, y) == [k |-> "log_density", d |-> d, x |-> x, y |-> y, c |-> 0]

\* the equations the functions are written with
CollectEqns ==
    {EAssume(d, 1) : d \in DistNames}
        \cup {EObserve(d, x, 1) : d \in DistNames, x \in 1 .. 2}
        \cup {ELogDensity(d, x, 1) : d \in DistNames, x \in 1 .. 2}
        \cup {EConst(1), EAdd(1, 2)}

\* the equations whose output is a value, not a log density
IsValueEqn(e) == e.k \in {"assume", "const", "add"}

\* every equation reads variables defined before it that hold values
WellFormed(g) ==
    \A j \in 1 .. Len(g) :
        \A v \in {g[j].x, g[j].y} \ {0} :
            v <= j /\ (v > 1 => IsValueEqn(g[v - 1]))

CollectGraphs ==
    {g \in UNION {[1 .. n -> CollectEqns] : n \in 1 .. MaxEqns} : WellFormed(g)}

NumAssumes(g) == Cardinality({j \in 1 .. Len(g) : g[j].k = "assume"})

\* score, retval = collect(f)(*args): interpreter = CollectingInterpreter(0.0);
\* run_interpreter stages f, which stages the sampler of every assume site
CollectCall ==
    /\ co_status = "idle"
    /\ co_status' = "running"
    /\ co_score' = Fin(0)
    /\ co_pc' = 1
    /\ co_env' = <<Leaf(arg0)>>
    /\ global_counter' = global_counter + NumAssumes(co_graph)
    /\ UNCHANGED <<co_graph, co_out, collect_frame>>

\* eval_jaxpr_collect at an observe_p equation: rebound, its output added to
\* the score
CollectObserve ==
    /\ co_status = "running"
    /\ co_pc <= Len(co_graph)
    /\ co_graph[co_pc].k = "observe"
    /\ LET e == co_graph[co_pc]
           outvals == logpdf(e.d, Val(co_env, e.x), Val(co_env, e.y))
       IN  /\ co_score' = FAdd(co_score, outvals)
           /\ co_env' = Append(co_env, outvals)
    /\ co_pc' = co_pc + 1
    /\ UNCHANGED <<co_graph, co_status, co_out, global_counter, collect_frame>>

\* eval_jaxpr_collect at any other equation: rebound; an assume_p equation
\* runs its keyless sampler
CollectOther ==
    /\ co_status = "running"
    /\ co_pc <= Len(co_graph)
    /\ co_graph[co_pc].k # "observe"
    /\ LET e == co_graph[co_pc]
       IN  IF e.k = "assume"
           THEN /\ \E v \in Sampleable(e.d, Val(co_env, e.y)) :
                      co_env' = Append(co_env, Leaf(v))
                /\ global_counter' = global_counter + 1
           ELSE /\ co_env' = Append(co_env,
                     IF e.k = "log_density"
                     THEN logpdf(e.d, Val(co_env, e.x), Val(co_env, e.y))
                     ELSE IF e.k = "const" THEN Leaf(e.c)
                     ELSE Leaf(Combine(Val(co_env, e.x), Val(co_env, e.y))))
                /\ UNCHANGED global_counter
    /\ co_pc' = co_pc + 1
    /\ UNCHANGED <<co_graph, co_status, co_score, co_out, collect_frame>>

\* the equations are exhausted: return self.score and the output, the
\* variable of the last equation
CollectReturn ==
    /\ co_status = "running"
    /\ co_pc > Len(co_graph)
    /\ co_status' = "done"
    /\ co_out' = [score |-> co_score, retval |-> co_env[Len(co_env)]]
    /\ UNCHANGED <<co_graph, co_pc, co_env, co_score, global_counter,
                   collect_frame>>

InitCollect ==
    /\ prog = [body |-> <<TraceStmt("a", "flip")>>,
               inner |-> <<TraceStmt("a", "coin")>>]
    /\ arg0 \in Args
    /\ handler_stack = <<>>
    /\ frames = <<>>
    /\ status = "idle"
    /\ call = [op |-> "none", x |-> Absent, stack0 |-> <<>>]
    /\ tr = Absent
    /\ res = Absent
    /\ ncalls = 0
    /\ global_counter = 0
    /\ SeedIdle
    /\ EnumIdle
    /\ SelIdle
    /\ VmapIdle
    /\ DiscIdle
    /\ EnvIdle
    /\ BlanketIdle
    /\ LoopIdle
    /\ NodeIdle
    /\ HeapIdle
    /\ ProjIdle
    /\ co_graph \in CollectGraphs
    /\ co_status = "idle"
    /\ co_pc = 0
    /\ co_env = <<>>
    /\ co_score = Absent
    /\ co_out = Absent

NextCollect ==
    \/ CollectCall
    \/ CollectObserve
    \/ CollectOther
    \/ CollectReturn

SpecCollect == InitCollect /\ [][NextCollect]_vars

\* the sum of the outputs of the equations of the given kinds among the first
\* n, in the run that wrote co_env
RECURSIVE SumOutputs(_, _)
SumOutputs(kinds, n) ==
    IF n = 0 THEN Fin(0)
    ELSE FAdd(SumOutputs(kinds, n - 1),
              IF co_graph[n].k \in kinds THEN co_env[n + 1] ELSE Fin(0))

\* C19: the score the collecting interpreter returns is the sum of the
\* outputs of every observe node and every log-density node the run executed;
\* no other node contributes.
CollectSumsObserveAndLogDensity ==
    co_status = "done" =>
        co_out.score = SumOutputs({"observe", "log_density"}, Len(co_graph))

\* the score is the sum of the outputs of the observe nodes, at every point
\* of the run; it starts at 0
CollectSumsObserve ==
    co_status \in {"running", "done"} =>
        /\ co_score = SumOutputs({"observe"}, co_pc - 1)
        /\ co_status = "done" => co_out.score = co_score
        /\ co_pc = 1 => co_score = Fin(0)

-----------------------------------------------------------------------------
(* update: which value every address of the new trace holds.                *)

\* the choices of a trace or a choice map, down to the values
RECURSIVE ChoiceValues(_)
ChoiceValues(x) ==
    IF x.t = "trace" THEN ChoiceValues(x.choices)
    ELSE IF x.t = "map"
         THEN Dict([ad \in Addrs |->
                      IF x.m[ad] = Absent THEN Absent ELSE ChoiceValues(x.m[ad])])
    ELSE x

\* the trace update was called with
OldTrace == IF "old" \in DOMAIN call THEN call.old ELSE tr

\* the value of every address the host function fn reaches: the one of the
\* new choices x where x has the address, the one of the old trace t
\* otherwise; no other address
RECURSIVE Resolved(_, _, _)
Resolved(fn, x, t) ==
    Dict([ad \in Addrs |->
            IF CalleesAt(Body(fn), ad) = {} THEN Absent
            ELSE LET c == CHOOSE callee \in CalleesAt(Body(fn), ad) : TRUE
                     v == IF x.m[ad] # Absent THEN get_choices(x.m[ad])
                          ELSE IF get_choices(t).m[ad] # Absent
                               THEN get_choices(get_choices(t).m[ad])
                          ELSE Absent
                 IN  IF c \in DistNames THEN ChoiceValues(v)
                     ELSE Resolved(c, v, get_choices(t).m[ad])])

\* update was called with choices of the right shape for every site they
\* name, on a host function that traces every address once and raises nowhere
UpdateCallWellFormed ==
    /\ call.op = "update"
    /\ status \in {"returned", "raised"}
    /\ DistinctAddrs(prog.body)
    /\ \A i \in 1 .. Len(prog.body) : prog.body[i].k = "trace"
    /\ \A ad \in Addrs :
          (call.x.m[ad] # Absent /\ call.x.m[ad].t = "map")
              => \A a2 \in Addrs :
                    call.x.m[ad].m[a2] # Absent => CalleesAt(prog.inner, a2) # {}

\* C20: update(args, trace, new_choices) returns a trace in which every
\* address reached holds new_choices[addr] where new_choices has the address
\* and the value of the old trace otherwise -- also where the old trace lacks
\* an address new_choices has -- and which holds no other address.
UpdateTakesNewChoiceOrOld ==
    UpdateCallWellFormed =>
        /\ status = "returned"
        /\ ChoiceValues(res.tr) = Resolved("outer", call.x, OldTrace)

\* C20 where the old trace has every address reached
UpdateTakesNewChoiceOrOldReached ==
    (UpdateCallWellFormed /\ "old" \notin DOMAIN call) =>
        /\ status = "returned"
        /\ ChoiceValues(res.tr) = Resolved("outer", call.x, OldTrace)

\* an update that took one value from the new choices and one, nested, from
\* the old trace
UpdateMixedWitness ==
    /\ UpdateCallWellFormed
    /\ status = "returned"
    /\ "old" \notin DOMAIN call
    /\ UsesInner(prog.body)
    /\ \E ad \in Addrs : call.x.m[ad] # Absent
    /\ \E ad \in Addrs : call.x.m[ad] = Absent /\ get_choices(tr).m[ad] # Absent

-----------------------------------------------------------------------------
(* The seeded pass at a scan node, for every length and both directions.   *)

MaxLength == 3     \* params["length"] of the scan nodes of ScanGraphs

ScanBodies ==
    {<<AssumeNode>>, <<AssumeNode, AssumeNode>>, <<OpNode, AssumeNode>>,
     <<CondNode(<<AssumeNode>>, <<OpNode>>)>>}

ScanNodes ==
    {ScanNodeWith(b, l, r) : b \in ScanBodies, l \in 0 .. MaxLength,
                             r \in BOOLEAN}

\* a scan on the argument, or on a sampled value
ScanGraphs == {<<n>> : n \in ScanNodes} \cup {<<AssumeNode, n>> : n \in ScanNodes}

InitScan ==
    /\ GFIIdle
    /\ global_counter = 0
    /\ graph \in ScanGraphs
    /\ jaxpr_cache = <<>>
    /\ lowering_warning \in BOOLEAN
    /\ enforce_lowering_exception = TRUE
    /\ seed_log = <<>>
    /\ last = [called |-> FALSE]
    /\ low = [outcome |-> "none"]
    /\ warned = FALSE
    /\ EnumIdle
    /\ SelIdle
    /\ VmapIdle
    /\ DiscIdle
    /\ EnvIdle
    /\ CollectIdle
    /\ BlanketIdle
    /\ LoopIdle
    /\ NodeIdle
    /\ HeapIdle
    /\ ProjIdle

\* the first seeded call of a session
ScanCall == seed_log = <<>> /\ SeedCall

NextScan ==
    \/ ScanCall

SpecScan == InitScan /\ [][NextScan]_vars

\* the scan node of the graph of the last call, the key and the value the
\* seeded pass reached it with, and its path
LastScanAt == Len(last.staged)
LastScanNode == last.staged[LastScanAt]
LastScanKey ==
    IF LastScanAt = 1 THEN last.key ELSE LastRun.keys[LastScanAt - 1]
LastScanAcc ==
    IF LastScanAt = 1 THEN last.a
    ELSE SeedGraph(SubSeq(last.staged, 1, LastScanAt - 1), last.key, last.a, <<>>).acc
LastScan == SeedScan(LastScanNode, LastScanKey, LastScanAcc, <<LastScanAt>>)

\* the same node with another length and direction
Rescan(l, r) ==
    SeedScan([LastScanNode EXCEPT !.length = l, !.reverse = r],
             LastScanKey, LastScanAcc, <<LastScanAt>>)

IsPrefix(q, r) == Len(q) <= Len(r) /\ SubSeq(r, 1, Len(q)) = q

\* C21: at a scan node the seeded pass splits the carried key once, whatever
\* the length; iteration i is seeded with fold_in(split key, i) and every one
\* of its sites samples with a key derived from that; every iteration
\* receives the same carried key; and the key of iteration i is the same for
\* every length above i and for both directions.
ScanFoldsIndex ==
    last.called =>
        LET sub_key == Split(LastScanKey)[2]
        IN  /\ LastRun.keys[LastScanAt] = Split(LastScanKey)[1]
            /\ LastScan.key = Split(LastScanKey)[1]
            /\ Len(LastScan.iters) = ScanParamLength(LastScanNode)
            /\ \A j \in 1 .. Len(LastScan.iters) :
                  /\ LastScan.iters[j].carried = sub_key
                  /\ LastScan.iters[j].key = FoldIn(sub_key, LastScan.iters[j].idx)
            /\ \A j \in 1 .. Len(LastScan.sites) :
                  LET st == LastScan.sites[j]
                  IN  /\ st.mode = "seeded"
                      /\ IsPrefix(FoldIn(sub_key, st.path[2]), st.key)
            /\ \A l \in 0 .. MaxLength, r \in BOOLEAN :
                  \A j \in 1 .. Len(LastScan.iters), m \in 1 .. l :
                      Rescan(l, r).iters[m].idx = LastScan.iters[j].idx
                          => Rescan(l, r).iters[m] = LastScan.iters[j]

\* a reverse scan of several iterations, reached with a key the pass has
\* already split, has run
ScanReverseWitness ==
    /\ last.called
    /\ LastScanAt = 2
    /\ ScanParamReverse(LastScanNode)
    /\ ScanParamLength(LastScanNode) >= 2
    /\ LastScan.iters[1].idx = ScanParamLength(LastScanNode) - 1
    /\ Len(LastScan.sites) >= 2

-----------------------------------------------------------------------------
(* The program discretize returns, once its source is run.                 *)

\* one distribution site of the rewritten source: the function it is traced
\* in, its address, what match reported for the address and the callee
\* refl_trace is given
DiscSite(fn, addr, d, matched, new_gen_fn) ==
    [fn |-> fn, addr |-> addr, d |-> d, matched |-> matched,
     new_gen_fn |-> new_gen_fn]

\* the distribution sites Fn.eval_jaxpr_discretize(sel, ...) traces from
\* equation i of the staged source of fn, nested functions run in place
RECURSIVE DiscretizedSites(_, _, _)
DiscretizedSites(s, fn, i) ==
    IF i > Len(Body(fn)) THEN <<>>
    ELSE LET st == Body(fn)[i]
             m == Match(s, st.addr)
             here == IF st.callee \in DistNames
                     THEN <<DiscSite(fn, st.addr, st.callee, m.check,
                                     DistDiscretizeResult(st.callee, m.rest))>>
                     ELSE DiscretizedSites(m.rest, st.callee, 1)
         IN  here \o DiscretizedSites(s, fn, i + 1)

\* new_source(*args) of the function discretize returned, run by a handler
NewSource ==
    /\ dz_out # Absent
    /\ dz_out.t = "Fn"
    /\ dz_out' = IF eval_jaxpr_discretize(dz_out.sel, dz_out.source, 1).t = "exc"
                 THEN Exc("AssertionError")
                 ELSE [t |-> "ran",
                       sites |-> DiscretizedSites(dz_out.sel, dz_out.source, 1)]
    /\ UNCHANGED <<discretization, dz_call, disc_frame>>

NextRewrite ==
    \/ FnDiscretize
    \/ NewSource

SpecRewrite == InitDisc /\ [][NextRewrite]_vars

\* C22: in the program discretize returns, the distribution at an address is
\* replaced by its discretized counterpart exactly when match reported the
\* address a member of the selection, and is the same distribution otherwise.
DiscretizedIffMatched ==
    (dz_out # Absent /\ dz_out.t = "ran") =>
        \A j \in 1 .. Len(dz_out.sites) :
            LET site == dz_out.sites[j]
            IN  /\ site.new_gen_fn.d = site.d
                /\ site.new_gen_fn.discretized <=> site.matched

\* what the code does: the distribution is replaced exactly when the residual
\* of the selection at its address matches the empty address
DiscretizedIffResidualMatchesEmpty ==
    (dz_out # Absent /\ dz_out.t = "ran") =>
        /\ Len(dz_out.sites) >= Len(Body("outer"))
        /\ \A j \in 1 .. Len(Body("outer")) :
              Body("outer")[j].callee \in DistNames =>
                 \E k \in 1 .. Len(dz_out.sites) :
                    LET site == dz_out.sites[k]
                        m == Match(dz_call.sel, site.addr)
                    IN  /\ site.fn = "outer"
                        /\ site.addr = Body("outer")[j].addr
                        /\ site.d = Body("outer")[j].callee
                        /\ site.matched = m.check
                        /\ site.new_gen_fn.discretized
                              = Match(m.rest, EmptyAddr).check

\* C22 for the selections whose residuals match everything or nothing
DiscretizedIffMatchedFlat ==
    (/\ dz_out # Absent
     /\ dz_out.t = "ran"
     /\ dz_call.sel \in {S(AllSel), S(NoneSel), S(StrSel("a")), S(StrSel("b")),
                         Invert(S(StrSel("a")))}) =>
        \A j \in 1 .. Len(dz_out.sites) :
            dz_out.sites[j].new_gen_fn.discretized <=> dz_out.sites[j].matched

\* a keyed selection reported a member and the rewritten source was run
DiscretizedKeyedWitness ==
    /\ dz_out # Absent
    /\ dz_out.t = "ran"
    /\ dz_call.sel.s.k = "dict"
    /\ \E j \in 1 .. Len(dz_out.sites) : dz_out.sites[j].matched

-----------------------------------------------------------------------------
(* blanket: the flow analysis fused with the rewrite of the traced sites.  *)

MaxFlowEqns == 3   \* equations of the staged graph a blanket is built from

\* the address of the site at equation i
FlowAddrs == <<"m", "v", "y", "q">>

\* an equation reads outputs of earlier equations (ins); a trace site calls a
\* distribution at its address, any other equation is a deterministic op
FlowEqn(k, addr, ins) == [k |-> k, addr |-> addr, ins |-> ins]

\* the equations that can stand at position i
FlowEqnsAt(i) ==
    {FlowEqn(k, FlowAddrs[i], ins) : k \in {"trace", "op"},
                                     ins \in SUBSET (1 .. (i - 1))}

RECURSIVE FlowJaxprsOf(_)
FlowJaxprsOf(n) ==
    IF n = 0 THEN {<<>>}
    ELSE {Append(g, e) : g \in FlowJaxprsOf(n - 1), e \in FlowEqnsAt(n)}

FlowJaxprs == UNION {FlowJaxprsOf(n) : n \in 1 .. MaxFlowEqns}

\* the selections a blanket is asked for
FlowSels ==
    {S(NoneSel), S(AllSel), S(StrSel("m")), S(StrSel("v")),
     Invert(S(StrSel("v")))}

\* Flow(v, f)
Flow(v, f) == [v |-> v, f |-> f]

\* Flow.any over the inputs of an equation, read from the environment
FlowAny(env, ins) == \E j \in ins : env[j].f

\* Distribution.blanket(flow_args, tr, sel): the flowing value returned and
\* the program to rebind (None when the site is projected away)
DistBlanket(any, retval, s) ==
    IF Match(s, EmptyAddr).check
    THEN [flow |-> Flow(retval, TRUE), m |-> "self"]
    ELSE IF any
         THEN [flow |-> Flow(retval, FALSE), m |-> "self"]
         ELSE [flow |-> Flow(retval, FALSE), m |-> "None"]

\* the value a deterministic op computes from its inputs
OpValue(env, ins) == Cardinality({j \in ins : env[j].v = 1}) % 2

\* Fn.eval_jaxpr_blanket from equation i: env holds the flowing outputs
\* written so far, sites the traced sites seen; refl holds what the rebound
\* sites return
RECURSIVE eval_jaxpr_blanket(_, _, _, _, _, _, _)
eval_jaxpr_blanket(x, s, jaxpr, refl, i, env, sites) ==
    IF i > Len(jaxpr) THEN [env |-> env, sites |-> sites]
    ELSE LET eqn == jaxpr[i]
             any == FlowAny(env, eqn.ins)
         IN  IF eqn.k = "trace"
             THEN LET b == DistBlanket(any, x[i], Match(s, eqn.addr).rest)
                      out == IF b.m # "None" THEN Flow(refl[i], b.flow.f)
                             ELSE b.flow
                  IN  eval_jaxpr_blanket(x, s, jaxpr, refl, i + 1,
                          Append(env, out),
                          Append(sites, [addr |-> eqn.addr, m |-> b.m,
                                         eqn |-> i, out |-> out]))
             ELSE eval_jaxpr_blanket(x, s, jaxpr, refl, i + 1,
                      Append(env, Flow(OpValue(env, eqn.ins), any)), sites)

\* tr.blanket(sel) for a trace of the function
TraceBlanket ==
    /\ bk_call = Absent
    /\ \E s \in FlowSels, refl \in [1 .. Len(bk_jaxpr) -> Values] :
          /\ bk_call' = [sel |-> s]
          /\ bk_out' = eval_jaxpr_blanket(bk_tr, s, bk_jaxpr, refl, 1, <<>>, <<>>)
    /\ UNCHANGED <<bk_jaxpr, bk_tr, blanket_frame>>

InitBlanket ==
    /\ GFIIdle
    /\ global_counter = 0
    /\ SeedIdle
    /\ EnumIdle
    /\ SelIdle
    /\ VmapIdle
    /\ DiscIdle
    /\ EnvIdle
    /\ CollectIdle
    /\ LoopIdle
    /\ NodeIdle
    /\ HeapIdle
    /\ ProjIdle
    /\ bk_jaxpr \in FlowJaxprs
    /\ bk_tr \in [1 .. Len(bk_jaxpr) -> Values]
    /\ bk_call = Absent
    /\ bk_out = Absent

NextBlanket ==
    \/ TraceBlanket

SpecBlanket == InitBlanket /\ [][NextBlanket]_vars

\* the site at equation i is selected
FlowSelected(i) == bk_jaxpr[i].k = "trace" /\ Match(bk_call.sel, bk_jaxpr[i].addr).check

\* equation i is downstream of a selected site by data flow, through
\* deterministic nodes and traced sites, at any distance
RECURSIVE Downstream(_)
Downstream(i) ==
    \E j \in bk_jaxpr[i].ins : FlowSelected(j) \/ Downstream(j)

\* equation i is downstream of a selected site through deterministic nodes
\* only
RECURSIVE DownstreamByOps(_)
DownstreamByOps(i) ==
    \E j \in bk_jaxpr[i].ins :
        \/ FlowSelected(j)
        \/ bk_jaxpr[j].k = "op" /\ DownstreamByOps(j)

\* C23: in the program blanket builds an address is retained exactly when it
\* is selected or downstream of a selected address by data flow, through
\* deterministic nodes and other traced sites at any distance; every other
\* address is projected away with the value the trace holds.
BlanketKeepsDownstream ==
    bk_out # Absent =>
        \A j \in 1 .. Len(bk_out.sites) :
            LET site == bk_out.sites[j]
            IN  /\ (site.m # "None")
                      <=> (FlowSelected(site.eqn) \/ Downstream(site.eqn))
                /\ site.m = "None" => site.out = Flow(bk_tr[site.eqn], FALSE)

\* what the code does: the flow stops at a retained site that is not selected
BlanketKeepsDownstreamByOps ==
    bk_out # Absent =>
        /\ Len(bk_out.sites) = Cardinality({i \in 1 .. Len(bk_jaxpr) :
                                              bk_jaxpr[i].k = "trace"})
        /\ \A j \in 1 .. Len(bk_out.sites) :
              LET site == bk_out.sites[j]
              IN  /\ bk_jaxpr[site.eqn].k = "trace"
                  /\ bk_jaxpr[site.eqn].addr = site.addr
                  /\ (site.m # "None")
                        <=> (FlowSelected(site.eqn) \/ DownstreamByOps(site.eqn))
                  /\ site.m = "None" => site.out = Flow(bk_tr[site.eqn], FALSE)
                  /\ site.out.f = FlowSelected(site.eqn)

\* a site two traced sites away from the selected one was analysed
BlanketChainWitness ==
    /\ bk_out # Absent
    /\ Len(bk_jaxpr) = 3
    /\ \A i \in 1 .. 3 : bk_jaxpr[i].k = "trace"
    /\ bk_jaxpr[2].ins = {1}
    /\ bk_jaxpr[3].ins = {2}
    /\ bk_call.sel = S(StrSel("m"))

-----------------------------------------------------------------------------
(* generate on a projected program: constrained and free addresses.        *)

\* the addresses of trace t hold the values of constraint c where c has
\* them, and sampled values elsewhere, in nested traces too
RECURSIVE HoldsConstraint(_, _)
HoldsConstraint(t, c) ==
    \A ad \in Addrs :
        LET sub == t.choices.m[ad]
        IN  sub # Absent =>
              IF sub.gen_fn \in DistNames
              THEN IF c.m[ad] # Absent
                   THEN get_choices(sub) = c.m[ad] /\ sub.retval = c.m[ad].v
                   ELSE get_choices(sub) \in {Leaf(v) : v \in Values}
              ELSE HoldsConstraint(sub, FnProject(c.m[ad]))

\* the log densities of the constrained addresses of trace t, summed
RECURSIVE ConstrainedDensity(_, _, _)
ConstrainedDensity(t, c, addrs) ==
    IF addrs = {} THEN Fin(0)
    ELSE LET ad == CHOOSE x \in addrs : TRUE
             sub == t.choices.m[ad]
             here == IF sub = Absent THEN Fin(0)
                     ELSE IF sub.gen_fn \in DistNames
                          THEN IF c.m[ad] # Absent
                               THEN logpdf(sub.gen_fn, c.m[ad].v, sub.args)
                               ELSE Fin(0)
                          ELSE ConstrainedDensity(sub, FnProject(c.m[ad]), Addrs)
         IN  FAdd(here, ConstrainedDensity(t, c, addrs \ {ad}))

\* the host function fn run from statement i with the sites constraint c has
\* held at their values of c and every other site at the next value of
\* sigma: the log densities of the constrained sites summed (w), the value
\* every address ends with (cm) and the value returned (acc)
RECURSIVE ConstrainedSites(_, _, _, _, _)
ConstrainedSites(fn, i, c, sigma, h) ==
    IF i > Len(Body(fn)) THEN h
    ELSE LET s == Body(fn)[i]
             sub == c.m[s.addr]
         IN  IF s.callee \in DistNames
             THEN LET v == IF sub # Absent THEN sub.v ELSE sigma[h.pos]
                  IN  ConstrainedSites(fn, i + 1, c, sigma,
                         [acc |-> Combine(h.acc, v),
                          pos |-> IF sub # Absent THEN h.pos ELSE h.pos + 1,
                          w |-> IF sub # Absent
                                THEN FAdd(h.w, logpdf(s.callee, v, h.acc))
                                ELSE h.w,
                          cm |-> [h.cm EXCEPT ![s.addr] = Leaf(v)]])
             ELSE LET r == ConstrainedSites(s.callee, 1, FnProject(sub), sigma,
                              [acc |-> h.acc, pos |-> h.pos, w |-> Fin(0),
                               cm |-> EmptyMap])
                  IN  ConstrainedSites(fn, i + 1, c, sigma,
                         [acc |-> Combine(h.acc, r.acc), pos |-> r.pos,
                          w |-> FAdd(h.w, r.w),
                          cm |-> [h.cm EXCEPT ![s.addr] = Dict(r.cm)]])

\* C24: the trace generate returns on P.project(args, c) holds c[addr] at
\* every reached address c has and a sampled value at every other, and the
\* weight is the sum of the log densities of the constrained sites only, 0
\* when c is empty.
GenerateHoldsConstraint ==
    (gen_out # Absent /\ gen_out.t = "ok") =>
        /\ HoldsConstraint(gen_out.tr, constraint)
        /\ constraint = Dict(EmptyMap) => gen_out.w = Fin(0)
        /\ \E sigma \in [1 .. Len(prog.body) -> Values] :
              LET r == ConstrainedSites("outer", 1, constraint, sigma,
                          [acc |-> arg0, pos |-> 1, w |-> Fin(0),
                           cm |-> EmptyMap])
              IN  /\ Dict(r.cm) = ChoiceValues(gen_out.tr)
                  /\ r.acc = gen_out.tr.retval
                  /\ r.w = gen_out.w

\* C24 read from the trace alone, for host functions that trace every address
\* once
GenerateHoldsConstraintDistinctAddrs ==
    (gen_out # Absent /\ gen_out.t = "ok" /\ DistinctAddrs(prog.body)) =>
        /\ HoldsConstraint(gen_out.tr, constraint)
        /\ gen_out.w = ConstrainedDensity(gen_out.tr, constraint, Addrs)
        /\ constraint = Dict(EmptyMap) => gen_out.w = Fin(0)

\* the values and the empty-constraint weight, for every host function
GenerateHoldsConstraintValues ==
    (gen_out # Absent /\ gen_out.t = "ok") =>
        /\ HoldsConstraint(gen_out.tr, constraint)
        /\ constraint = Dict(EmptyMap) => gen_out.w = Fin(0)

\* a trace with one address constrained and another sampled was generated
GenerateMixedWitness ==
    /\ gen_out # Absent
    /\ gen_out.t = "ok"
    /\ DistinctAddrs(prog.body)
    /\ \E ad \in Addrs : constraint.m[ad] # Absent /\ gen_out.tr.choices.m[ad] # Absent
    /\ \E ad \in Addrs : constraint.m[ad] = Absent /\ gen_out.tr.choices.m[ad] # Absent
    /\ gen_out.w # Fin(0)

-----------------------------------------------------------------------------
(* The loop of the enumeration interpreter: eval_jaxpr_enum_loop and the   *)
(* continuations it maps over the supports.                                 *)

MaxLoopEqns == 4   \* equations of the staged function

\* an equation is an assume_p with a support function, an assume_p without
\* one, or any other primitive
LoopEqnKinds == {"assume", "assume_unsupported", "other"}

LoopJaxprs == UNION {[1 .. n -> LoopEqnKinds] : n \in 0 .. MaxLoopEqns}

\* a call eval_jaxpr_enum_loop(eqns, ...): idx is the number of equations of
\* eqns the for loop has gone past, mapping says the call stands in
\* `return modular_vmap(continuation)(support)`
LoopFrame(eqns) == [eqns |-> eqns, idx |-> 0, mapping |-> FALSE]

\* eqns[idx + 1:] of the frame at the assume node it stands at
ContinuationEqns(f) == SubSeq(f.eqns, f.idx + 2, Len(f.eqns))

LoopTop == el_stack[Len(el_stack)]

LoopAtEqn ==
    /\ el_status = "running"
    /\ el_stack # <<>>
    /\ ~LoopTop.mapping
    /\ LoopTop.idx < Len(LoopTop.eqns)

LoopEqn == LoopTop.eqns[LoopTop.idx + 1]

\* the frames the interpreter is followed through
MaxLoopDepth == MaxLoopEqns + 1

\* the stack with the innermost call mapping the continuation over eqns
PushContinuation(eqns) ==
    Append([el_stack EXCEPT ![Len(el_stack)].mapping = TRUE], LoopFrame(eqns))

\* eval_jaxpr_enum(jaxpr, consts, args): the loop is called on jaxpr.eqns
LoopCall ==
    /\ el_status = "start"
    /\ el_status' = "running"
    /\ el_stack' = <<LoopFrame(el_eqns)>>
    /\ el_depth' = 1
    /\ UNCHANGED <<el_eqns, loop_frame>>

\* the loop at an assume_p whose continuation is called on the equations
\* from the node itself
LoopAssumeSameSuffix ==
    /\ LoopAtEqn
    /\ LoopEqn \in {"assume", "assume_unsupported"}
    /\ Len(el_stack) < MaxLoopDepth
    /\ IF LoopEqn = "assume"
       THEN /\ el_stack' = PushContinuation(SubSeq(LoopTop.eqns, LoopTop.idx + 1,
                                                   Len(LoopTop.eqns)))
            /\ el_depth' = IF Len(el_stack) + 1 > el_depth
                           THEN Len(el_stack) + 1 ELSE el_depth
            /\ UNCHANGED el_status
       ELSE /\ el_status' = "raised"
            /\ UNCHANGED <<el_stack, el_depth>>
    /\ UNCHANGED <<el_eqns, loop_frame>>

\* the loop at an assume_p: the support function is asserted, and
\* modular_vmap calls the continuation, which runs the loop on eqns[idx + 1:]
LoopAssume ==
    /\ LoopAtEqn
    /\ LoopEqn \in {"assume", "assume_unsupported"}
    /\ Len(el_stack) < MaxLoopDepth
    /\ IF LoopEqn = "assume"
       THEN /\ el_stack' = PushContinuation(ContinuationEqns(LoopTop))
            /\ el_depth' = IF Len(el_stack) + 1 > el_depth
                           THEN Len(el_stack) + 1 ELSE el_depth
            /\ UNCHANGED el_status
       ELSE /\ el_status' = "raised"
            /\ UNCHANGED <<el_stack, el_depth>>
    /\ UNCHANGED <<el_eqns, loop_frame>>

\* the loop at any other equation: rebind, write, next equation
LoopOther ==
    /\ LoopAtEqn
    /\ LoopEqn = "other"
    /\ el_stack' = [el_stack EXCEPT ![Len(el_stack)].idx = @ + 1]
    /\ UNCHANGED <<el_eqns, el_status, el_depth, loop_frame>>

\* the innermost call returns: its for loop is exhausted, or the
\* continuation it mapped has returned
LoopReturn ==
    /\ el_status = "running"
    /\ el_stack # <<>>
    /\ LoopTop.mapping \/ LoopTop.idx = Len(LoopTop.eqns)
    /\ el_stack' = SubSeq(el_stack, 1, Len(el_stack) - 1)
    /\ el_status' = IF Len(el_stack) = 1 THEN "done" ELSE "running"
    /\ UNCHANGED <<el_eqns, el_depth, loop_frame>>

InitEnumLoop ==
    /\ GFIIdle
    /\ global_counter = 0
    /\ SeedIdle
    /\ EnumIdle
    /\ SelIdle
    /\ VmapIdle
    /\ DiscIdle
    /\ EnvIdle
    /\ CollectIdle
    /\ BlanketIdle
    /\ NodeIdle
    /\ HeapIdle
    /\ ProjIdle
    /\ el_eqns \in LoopJaxprs
    /\ el_stack = <<>>
    /\ el_status = "start"
    /\ el_depth = 0

NextEnumLoop ==
    \/ LoopCall
    \/ LoopAssume
    \/ LoopOther
    \/ LoopReturn

SpecEnumLoop == InitEnumLoop /\ [][NextEnumLoop]_vars

\* the interpreter is a sequential program: while a step is possible one is
\* taken
FairEnumLoop == SpecEnumLoop /\ WF_vars(NextEnumLoop)

\* the assume nodes of the staged function
LoopAssumes == {i \in 1 .. Len(el_eqns) : el_eqns[i] # "other"}

\* every call in progress runs on a suffix of the equations, a continuation
\* on one strictly shorter than its caller's; no call has gone past more
\* equations than it was given; the nesting is no deeper than the assume
\* nodes allow
LoopBounded ==
    /\ \A j \in 1 .. Len(el_stack) :
          /\ el_stack[j].idx <= Len(el_stack[j].eqns)
          /\ el_stack[j].eqns = SubSeq(el_eqns, Len(el_eqns) - Len(el_stack[j].eqns) + 1,
                                       Len(el_eqns))
          /\ j > 1 => Len(el_stack[j].eqns) < Len(el_stack[j - 1].eqns)
    /\ Len(el_stack) <= Cardinality(LoopAssumes) + 1
    /\ el_depth <= Cardinality(LoopAssumes) + 1

\* a call goes past an equation once: its index only grows, by one
LoopAdvances ==
    [][\A j \in 1 .. Len(el_stack) :
          j <= Len(el_stack') =>
             /\ el_stack'[j].eqns = el_stack[j].eqns
             /\ el_stack'[j].idx >= el_stack[j].idx
             /\ el_stack'[j].idx <= el_stack[j].idx + 1]_vars

\* C25: enumeration always terminates: every call of the loop goes past each
\* of its equations at most once, every continuation runs on a strictly
\* shorter suffix, the nesting never exceeds the number of assume nodes, and
\* every run reaches done or a fatal error.
EnumTerminates ==
    /\ []LoopBounded
    /\ LoopAdvances
    /\ <>(el_status \in {"done", "raised"})

\* a run through two nested continuations is done
LoopNestedDoneWitness ==
    /\ el_status = "done"
    /\ el_depth = 3
    /\ Cardinality(LoopAssumes) = 2
    /\ Len(el_eqns) = MaxLoopEqns

-----------------------------------------------------------------------------
(* simulate of a function that traces functions: the traces and the stack. *)

\* the scores of the traces of distributions a trace holds, at every depth
RECURSIVE DistScores(_, _)
DistScores(t, addrs) ==
    IF addrs = {} THEN Fin(0)
    ELSE LET ad == CHOOSE x \in addrs : TRUE
             sub == t.choices.m[ad]
             here == IF sub = Absent THEN Fin(0)
                     ELSE IF sub.gen_fn \in DistNames THEN get_score(sub)
                     ELSE DistScores(sub, Addrs)
         IN  FAdd(here, DistScores(t, addrs \ {ad}))

\* the choice map of trace t holds the addresses the body of its function
\* traces and no other, each with a trace of the program traced there
RECURSIVE OwnAddresses(_)
OwnAddresses(t) ==
    \A ad \in Addrs :
        LET sub == t.choices.m[ad]
        IN  /\ sub # Absent <=> CalleesAt(Body(t.gen_fn), ad) # {}
            /\ sub # Absent =>
                  /\ sub.t = "trace"
                  /\ sub.gen_fn \in CalleesAt(Body(t.gen_fn), ad)
                  /\ IF sub.gen_fn \in DistNames
                     THEN get_choices(sub) \in {Leaf(v) : v \in Values}
                     ELSE OwnAddresses(sub)

\* the trace a simulate returned
SimulateTraceNested ==
    (status = "returned" /\ call.op = "simulate") =>
        /\ res.tr.gen_fn = "outer"
        /\ OwnAddresses(res.tr)
        /\ DistinctAddrs(prog.body) => get_score(res.tr) = DistScores(res.tr, Addrs)

\* while a simulate runs, the handler of the innermost call is on top
SimulateHandlerOnTop ==
    (Running /\ call.op = "simulate") =>
        /\ Len(handler_stack) = Len(call.stack0) + Len(frames)
        /\ \A j \in 1 .. Len(frames) :
              handler_stack[Len(call.stack0) + j].kind = "Simulate"

\* one step of a simulate: a sub-call is recorded by the handler on top,
\* score += subtrace.score and trace_map[addr] = subtrace, a nested call
\* pushes a fresh handler, and the handlers beneath stay as they are
SimulateStep ==
    (Running /\ call.op = "simulate" /\ frames' # <<>>) =>
        LET n == Len(frames)
            m == Len(handler_stack)
        IN  /\ Len(frames') = n + 1 =>
                 /\ handler_stack' = Append(handler_stack, Handler("Simulate", Absent, Absent))
                 /\ SubSeq(frames', 1, n) = frames
            /\ Len(frames') = n =>
                 LET h == handler_stack[m]
                     h2 == handler_stack'[m]
                     sub == h2.trace_map[CurStmt.addr]
                 IN  /\ Len(handler_stack') = m
                     /\ SubSeq(handler_stack', 1, m - 1) = SubSeq(handler_stack, 1, m - 1)
                     /\ sub # Absent
                     /\ sub.gen_fn = CurStmt.callee
                     /\ h2.score = FAdd(h.score, get_score(sub))
                     /\ h2.trace_map = [h.trace_map EXCEPT ![CurStmt.addr] = sub]
            /\ Len(frames') = n - 1 =>
                 LET inner == handler_stack[m]
                     h == handler_stack[m - 1]
                     h2 == handler_stack'[m - 1]
                     at == Body(frames[n - 1].fn)[frames[n - 1].pc]
                     sub == h2.trace_map[at.addr]
                 IN  /\ Len(handler_stack') = m - 1
                     /\ SubSeq(handler_stack', 1, m - 2) = SubSeq(handler_stack, 1, m - 2)
                     /\ sub = Trace(frames[n].fn, frames[n].args,
                                    Dict(inner.trace_map), frames[n].acc, inner.score)
                     /\ frames[n].fn = at.callee
                     /\ h2.score = FAdd(h.score, inner.score)
                     /\ h2.trace_map = [h.trace_map EXCEPT ![at.addr] = sub]

-----------------------------------------------------------------------------
(* The parameters of an assume node, and what the batch rule binds.        *)

\* a support function, or the None of a distribution built without one
NoSupport == "None"
SupportFns == {NoSupport, "flip_support", "categorical_support"}

NodeNames == {"flip", "categorical", "normal"}
KeyfulSamplers == {"bernoulli_sampler", "categorical_sampler", "normal_sampler"}

\* initial_style_bind(assume_p, keyful_sampler=..., support=..., ...)(keyless,
\* name=name): the parameters of the node assume_binder binds
AssumeNodeParams(keyful_sampler, name, batch_shape, support) ==
    [keyful_sampler |-> keyful_sampler, name |-> name,
     batch_shape |-> batch_shape, support |-> support]

\* assume_binder.batch: assume_binder(keyful_sampler, name=name,
\* batch_shape=new_batch_shape)(*vector_args); support takes its default
BatchRebind(p, new_batch_shape) ==
    AssumeNodeParams(p.keyful_sampler, p.name, new_batch_shape, NoSupport)

\* modular_vmap(f, axis_size = N) staged: the batch rule replaces the node
NodeVmap ==
    /\ nd_enum = Absent
    /\ Len(nd_params.batch_shape) < MaxLevels
    /\ \E N \in AxisSizes :
          LET r == AssumeBatch(nd_params.batch_shape, <<>>, NotMapped, N,
                               Len(nd_params.batch_shape) + 1)
          IN  nd_params' = BatchRebind(nd_params, r.batch_shape)
    /\ UNCHANGED <<nd_bound, nd_enum, node_frame>>

\* enum at the node: the support function is looked up and asserted
NodeEnum ==
    /\ nd_enum = Absent
    /\ nd_enum' = IF nd_params.support # NoSupport
                  THEN [t |-> "mapped", support |-> nd_params.support]
                  ELSE Exc("AssertionError")
    /\ UNCHANGED <<nd_params, nd_bound, node_frame>>

InitNode ==
    /\ GFIIdle
    /\ global_counter = 0
    /\ SeedIdle
    /\ EnumIdle
    /\ SelIdle
    /\ VmapIdle
    /\ DiscIdle
    /\ EnvIdle
    /\ CollectIdle
    /\ BlanketIdle
    /\ LoopIdle
    /\ HeapIdle
    /\ ProjIdle
    /\ nd_params \in {AssumeNodeParams(k, n, <<>>, s) :
                        k \in KeyfulSamplers, n \in NodeNames, s \in SupportFns}
    /\ nd_bound = nd_params
    /\ nd_enum = Absent

NextNode ==
    \/ NodeVmap
    \/ NodeEnum

SpecNode == InitNode /\ [][NextNode]_vars

\* C27: the assume node the batch rule emits has the name, the sampler and
\* the support function of the node it replaces, so a node that had a
\* support function is still enumerable after modular_vmap.
BatchKeepsMetadata ==
    /\ nd_params.name = nd_bound.name
    /\ nd_params.keyful_sampler = nd_bound.keyful_sampler
    /\ nd_params.support = nd_bound.support
    /\ (nd_enum # Absent /\ nd_bound.support # NoSupport) => nd_enum.t = "mapped"

\* what the batch rule keeps: the name and the sampler
BatchKeepsNameAndSampler ==
    /\ nd_params.name = nd_bound.name
    /\ nd_params.keyful_sampler = nd_bound.keyful_sampler
    /\ nd_params.batch_shape # <<>> => nd_params.support = NoSupport

\* a node with a support function was vectorized and then enumerated
BatchEnumeratedWitness ==
    /\ nd_enum # Absent
    /\ nd_bound.support # NoSupport
    /\ nd_params.batch_shape # <<>>

-----------------------------------------------------------------------------
(* The keys of one seeded pass.                                             *)

\* key k was split or folded, at some remove, into key d
DerivedFrom(d, k) == Len(k) < Len(d) /\ SubSeq(d, 1, Len(k)) = k

\* the keys the last pass carried from node to node
LastCarried == {last.key} \cup {LastRun.keys[j] : j \in 1 .. Len(LastRun.keys)}

\* C28: in one seeded pass every sampling site, at the top level, in a branch
\* or in an iteration of a loop, at any depth, samples with a key no other
\* site samples with, and no key a sampler was given is split or folded into
\* further keys.
SiteKeysUnique ==
    (last.called /\ last.out.t = "ok") =>
        LET sites == LastRun.sites
        IN  \A i \in 1 .. Len(sites) :
               /\ \A j \in 1 .. Len(sites) : i # j => sites[i].key # sites[j].key
               /\ \A j \in 1 .. Len(sites) : ~DerivedFrom(sites[j].key, sites[i].key)
               /\ \A k \in LastCarried : ~DerivedFrom(k, sites[i].key)

\* C28 for the sites the pass seeds
SeededSiteKeysUnique ==
    (last.called /\ last.out.t = "ok") =>
        LET sites == LastRun.sites
        IN  \A i \in 1 .. Len(sites) :
               sites[i].mode = "seeded" =>
                  /\ DerivedFrom(sites[i].key, last.key)
                  /\ \A j \in 1 .. Len(sites) :
                        (i # j /\ sites[j].mode = "seeded")
                            => /\ sites[i].key # sites[j].key
                               /\ ~DerivedFrom(sites[j].key, sites[i].key)
                  /\ \A k \in LastCarried : ~DerivedFrom(k, sites[i].key)

\* a pass ran sites in a branch, in a loop and at the top level
SeededSitesWitness ==
    /\ last.called
    /\ last.out.t = "ok"
    /\ Len(LastRun.sites) >= 3
    /\ \A i \in 1 .. Len(LastRun.sites) : LastRun.sites[i].mode = "seeded"

-----------------------------------------------------------------------------
(* Choice maps as objects: Fn traces keep the dict their handler filled, and *)
(* Trace.get_choices returns that dict itself (core.py 1083-1084).  The      *)
(* heap lists the dicts in order of construction; a dict remembers what it   *)
(* held when its trace was constructed or when the caller supplied it.       *)

MaxHeapCalls == 2
HeapAddrs == {"a", "b"}
HeapVals  == {0, 1}
Algs      == {"Importance", "Algorithm"}

ChoiceMaps == UNION {[D -> HeapVals] : D \in SUBSET HeapAddrs}

\* role: "trace" the choice map of a trace, "supplied" an argument of the
\* caller, "local" a dict no trace holds
HeapDict(m, role) == [m |-> m, role |-> role, snap |-> m]

\* dict.pop(addr)
DictPop(m, addr) == [k \in DOMAIN m \ {addr} |-> m[k]]

\* dict[addr] = v
DictSetItem(m, addr, v) ==
    [k \in DOMAIN m \cup {addr} |-> IF k = addr THEN v ELSE m[k]]


\* Fn.assess over the addresses fn with the Assess handler: each site reads
\* choice_map[addr]
AssessChoices(fn, m) ==
    IF fn \subseteq DOMAIN m
    THEN [t |-> "ok", x |-> [k \in fn |-> m[k]]]
    ELSE Exc("KeyError")

\* Fn.simulate: the Simulate handler fills a new dict, the trace keeps it
HeapFnSimulate ==
    /\ mg_calls < MaxHeapCalls
    /\ mg_calls' = mg_calls + 1
    /\ \E m \in ChoiceMaps :
          /\ mg_heap' = Append(mg_heap, HeapDict(m, "trace"))
          /\ mg_out' = [t |-> "ok", x |-> m]
    /\ UNCHANGED heap_frame

\* Fn.assess(args, x)
HeapFnAssess ==
    /\ mg_calls < MaxHeapCalls
    /\ mg_calls' = mg_calls + 1
    /\ \E fn \in SUBSET HeapAddrs, x \in ChoiceMaps :
          /\ mg_heap' = Append(mg_heap, HeapDict(x, "supplied"))
          /\ mg_out' = AssessChoices(fn, x)
    /\ UNCHANGED heap_frame

\* Fn.update(args, tr, x): the Update handler reads the old trace and the new
\* choices and fills a new trace map and a new discard
HeapFnUpdate ==
    /\ mg_calls < MaxHeapCalls
    /\ mg_calls' = mg_calls + 1
    /\ \E d \in DOMAIN mg_heap, x \in ChoiceMaps :
          /\ mg_heap[d].role = "trace"
          /\ LET old  == mg_heap[d].m
                 new  == [k \in DOMAIN old |->
                             IF k \in DOMAIN x THEN x[k] ELSE old[k]]
             IN  /\ mg_heap' = mg_heap \o <<HeapDict(x, "supplied"),
                                            HeapDict(new, "trace"),
                                            HeapDict(old, "local")>>
                 /\ mg_out' = [t |-> "ok", x |-> new]
    /\ UNCHANGED heap_frame

\* Importance.simulate with the proposal's choices pm: the dict _assess
\* writes the constraint into is the copy modular_vmap hands it
ImportanceRun(heap, gen_fn, addr, c, pm) ==
    LET copy  == [m |-> DictSetItem(pm, addr, c), role |-> "local", snap |-> pm]
        heap1 == heap \o <<HeapDict(pm, "trace"), copy>>
        p     == AssessChoices(gen_fn, copy.m)
    IN  IF p.t = "exc"
        THEN [heap |-> heap1, out |-> p]
        ELSE [heap |-> Append(heap1, HeapDict(pm, "trace")),
              out  |-> [t |-> "ok", x |-> pm]]

ImportanceSimulate ==
    /\ mg_calls < MaxHeapCalls
    /\ mg_calls' = mg_calls + 1
    /\ \E gen_fn \in SUBSET HeapAddrs, addr \in HeapAddrs, c \in HeapVals,
          pm \in ChoiceMaps :
          LET r == ImportanceRun(mg_heap, gen_fn, addr, c, pm)
          IN  /\ mg_heap' = r.heap
              /\ mg_out' = r.out
    /\ UNCHANGED heap_frame

\* Marginal.simulate: the address is popped from the dict of the trace that
\* gen_fn.simulate returned
MarginalSimulate ==
    /\ mg_calls < MaxHeapCalls
    /\ mg_calls' = mg_calls + 1
    /\ \E m \in ChoiceMaps, addr \in HeapAddrs, alg \in Algs :
          LET heap1 == Append(mg_heap, HeapDict(m, "trace"))
              d     == Len(heap1)
          IN  IF addr \notin DOMAIN m
              THEN /\ mg_heap' = heap1
                   /\ mg_out' = Exc("KeyError")
              ELSE /\ mg_heap' = [heap1 EXCEPT ![d].m = DictPop(m, addr)]
                   /\ mg_out' = IF alg = "Importance"
                                THEN Exc("NotImplementedError")
                                ELSE [t |-> "ok", x |-> m[addr]]
    /\ UNCHANGED heap_frame

\* Marginal.assess: x is written at the address into the dict of the trace
\* that alg.simulate returned
MarginalAssess ==
    /\ mg_calls < MaxHeapCalls
    /\ mg_calls' = mg_calls + 1
    /\ \E gen_fn \in SUBSET HeapAddrs, addr \in HeapAddrs, x \in HeapVals,
          pm \in ChoiceMaps :
          LET r == ImportanceRun(mg_heap, gen_fn, addr, x, pm)
              d == Len(r.heap)
          IN  IF r.out.t = "exc"
              THEN /\ mg_heap' = r.heap
                   /\ mg_out' = r.out
              ELSE LET choices == DictSetItem(r.heap[d].m, addr, x)
                   IN  /\ mg_heap' = [r.heap EXCEPT ![d].m = choices]
                       /\ mg_out' = AssessChoices(gen_fn, choices)
    /\ UNCHANGED heap_frame

InitHeap ==
    /\ GFIIdle
    /\ global_counter = 0
    /\ SeedIdle
    /\ EnumIdle
    /\ SelIdle
    /\ VmapIdle
    /\ DiscIdle
    /\ EnvIdle
    /\ CollectIdle
    /\ BlanketIdle
    /\ LoopIdle
    /\ NodeIdle
    /\ HeapIdle
    /\ ProjIdle

NextHeap ==
    \/ HeapFnSimulate
    \/ HeapFnAssess
    \/ HeapFnUpdate
    \/ ImportanceSimulate
    \/ MarginalSimulate
    \/ MarginalAssess

SpecHeap == InitHeap /\ [][NextHeap]_vars

\* C29: the choice map of a trace is never modified once the trace is
\* constructed, and no GFI call modifies the choices it was supplied: every
\* such dict holds what it held when it was constructed or supplied.
ChoiceMapsFrozen ==
    \A d \in DOMAIN mg_heap :
        mg_heap[d].role \in {"trace", "supplied"}
            => mg_heap[d].m = mg_heap[d].snap

\* C29 for assess, update and Importance.simulate: they leave every dict
\* built before the call as it was and build their own as they stay
CoreCallsKeepChoiceMaps ==
    [][(HeapFnSimulate \/ HeapFnAssess \/ HeapFnUpdate \/ ImportanceSimulate)
          => /\ SubSeq(mg_heap', 1, Len(mg_heap)) = mg_heap
             /\ \A d \in DOMAIN mg_heap' :
                   (d > Len(mg_heap) /\ mg_heap'[d].role # "local")
                       => mg_heap'[d].m = mg_heap'[d].snap]_vars

\* C29 for Marginal: only the dict of the trace the call itself obtained is
\* changed
MarginalChangesObtainedTrace ==
    [][(MarginalSimulate \/ MarginalAssess)
          => SubSeq(mg_heap', 1, Len(mg_heap)) = mg_heap]_vars

-----------------------------------------------------------------------------
(* project on a measure that project returned.                              *)

MaxProjects == 2

\* the constraints a caller may pass for a host function: per address nothing,
\* a value, or a map for a nested function with up to two sites
NestedConstraints == {Dict(m) : m \in [Addrs -> LeafOpts]}
ProjConstraints ==
    {Dict(m) : m \in [Addrs -> LeafOpts \cup NestedConstraints]}

\* the measure classes
RMFn(x) == [t |-> "RMFn", x |-> x]
RMDistribution(x) == [t |-> "RMDistribution", constraint |-> x]

\* {**x, **sx}: every key of x, then every key of sx over it
DictMerge(x, sx) ==
    Dict([ad \in Addrs |-> IF sx.m[ad] # Absent THEN sx.m[ad] ELSE x.m[ad]])

\* RMFn.project(args, x)
RMFnProject(self, x) ==
    LET x1 == IF Truthy(x) THEN x ELSE Dict(EmptyMap)
    IN  RMFn(DictMerge(x1, self.x))

\* Distribution.project(args, x)
DistProject(x) ==
    IF x # Absent THEN RMDistribution(x) ELSE [t |-> "Distribution"]

\* RMDistribution.project(args, x)
RMDistProject(self, x) ==
    IF x = Absent THEN self ELSE Exc("AssertionError")

\* project on what the last call returned (P itself at the start)
ProjTarget == IF pj_hist = <<>> THEN Absent ELSE pj_hist[Len(pj_hist)]

ProjReturn(m, x) ==
    /\ pj_hist' = Append(pj_hist, m)
    /\ pj_log' = Append(pj_log, x)
    /\ UNCHANGED proj_frame

\* P.project(args, x) for a host function P
FnProjectCall ==
    /\ pj_hist = <<>>
    /\ \E x \in {Absent} \cup ProjConstraints : ProjReturn(RMFn(FnProject(x)), x)

\* m.project(args, x) for m an RMFn
RMFnProjectCall ==
    /\ Len(pj_hist) \in 1 .. MaxProjects - 1
    /\ ProjTarget.t = "RMFn"
    /\ \E x \in {Absent} \cup ProjConstraints :
          ProjReturn(RMFnProject(ProjTarget, x), x)

\* P.project(args, x) for a distribution P, or for what P.project(args, None)
\* returned, P itself
DistProjectCall ==
    /\ Len(pj_hist) < MaxProjects
    /\ pj_hist # <<>> => ProjTarget.t = "Distribution"
    /\ \E x \in LeafOpts : ProjReturn(DistProject(x), x)

\* m.project(args, x) for m an RMDistribution
RMDistProjectCall ==
    /\ Len(pj_hist) \in 1 .. MaxProjects - 1
    /\ ProjTarget.t = "RMDistribution"
    /\ \E x \in LeafOpts : ProjReturn(RMDistProject(ProjTarget, x), x)

InitProj ==
    /\ GFIIdle
    /\ global_counter = 0
    /\ SeedIdle
    /\ EnumIdle
    /\ SelIdle
    /\ VmapIdle
    /\ DiscIdle
    /\ EnvIdle
    /\ CollectIdle
    /\ BlanketIdle
    /\ LoopIdle
    /\ NodeIdle
    /\ HeapIdle
    /\ ProjIdle

NextProj ==
    \/ FnProjectCall
    \/ RMFnProjectCall
    \/ DistProjectCall
    \/ RMDistProjectCall

SpecProj == InitProj /\ [][NextProj]_vars

\* the value a constraint gives the address at a path, Absent where none
ConstraintAt(c, p) ==
    IF c = Absent THEN Absent
    ELSE IF p = <<>> THEN (IF c.t = "val" THEN c ELSE Absent)
    ELSE IF c.t # "map" THEN Absent
    ELSE LET e == c.m[p[1]]
         IN  IF Len(p) = 1 THEN (IF e # Absent /\ e.t = "val" THEN e ELSE Absent)
             ELSE IF e # Absent /\ e.t = "map" THEN e.m[p[2]] ELSE Absent

\* the paths of addresses: a distribution's own, a site, a nested site
ProjPaths ==
    {<<>>} \cup {<<ad>> : ad \in Addrs}
           \cup {<<ad, ad2>> : ad \in Addrs, ad2 \in Addrs}

\* the addresses a constraint gives a value
ConstrainedPaths(c) == {p \in ProjPaths : ConstraintAt(c, p) # Absent}

\* the constraint a measure holds
MeasureConstraint(m) ==
    IF m.t = "RMFn" THEN m.x
    ELSE IF m.t = "RMDistribution" THEN m.constraint
    ELSE Absent

\* C30: for m = project(P, c1) and m2 = m.project(args, c2), every address
\* of c1 keeps its c1 value in m2, every address only c2 constrains has its
\* c2 value in m2, and m2 is m when c2 is c1 or None.
ReprojectOnlyAdds ==
    Len(pj_hist) = 2 =>
        LET c1 == pj_log[1]
            c2 == pj_log[2]
            m  == pj_hist[1]
            m2 == pj_hist[2]
        IN  /\ m2.t # "exc"
            /\ \A p \in ConstrainedPaths(c1) :
                  ConstraintAt(MeasureConstraint(m2), p) = ConstraintAt(c1, p)
            /\ \A p \in ConstrainedPaths(c2) \ ConstrainedPaths(c1) :
                  ConstraintAt(MeasureConstraint(m2), p) = ConstraintAt(c2, p)
            /\ (c2 = c1 \/ c2 = Absent) => m2 = m

\* C30 as far as the merge goes: on a host function's measure the entries of
\* c1 stay, an entry of c2 is taken where c1 has none at that top-level
\* address, and the same constraint or None changes nothing
ReprojectMergesTopLevel ==
    (Len(pj_hist) = 2 /\ pj_hist[1].t = "RMFn") =>
        LET c1 == pj_hist[1].x
            c2 == IF Truthy(pj_log[2]) THEN pj_log[2] ELSE Dict(EmptyMap)
            m2 == pj_hist[2]
        IN  /\ m2.t = "RMFn"
            /\ \A ad \in Addrs :
                  m2.x.m[ad] = IF c1.m[ad] # Absent THEN c1.m[ad] ELSE c2.m[ad]
            /\ \A p \in ConstrainedPaths(c1) :
                  ConstraintAt(m2.x, p) = ConstraintAt(c1, p)
            /\ (pj_log[2] = pj_log[1] \/ pj_log[2] = Absent) => m2 = pj_hist[1]

\* C30 on a distribution's measure: only None is accepted
ReprojectDistributionOnlyNone ==
    (Len(pj_hist) = 2 /\ pj_hist[1].t = "RMDistribution") =>
        pj_hist[2] = IF pj_log[2] = Absent THEN pj_hist[1]
                     ELSE Exc("AssertionError")

\* two constraints on different sites of one nested function
ReprojectNestedLost ==
    /\ Len(pj_hist) = 2
    /\ pj_log[1] = Dict([EmptyMap EXCEPT !["b"] =
                            Dict([EmptyMap EXCEPT !["a"] = Leaf(0)])])
    /\ pj_log[2] = Dict([EmptyMap EXCEPT !["b"] =
                            Dict([EmptyMap EXCEPT !["b"] = Leaf(1)])])
    /\ ConstraintAt(pj_hist[2].x, <<"b", "b">>) = Absent

=============================================================================
